---- MODULE Spec2Model ----
(***************************************************************************)
(* A model of the container library: the growable array sequence           *)
(* (ArrayList), the sentinel-based doubly linked sequence (LinkedList) and *)
(* the stack and queue adapters built on them.                             *)
(*                                                                         *)
(* Memory is explicit.  Array buffers live in the buffer heap `bufs`, list *)
(* nodes in the node heap `nodes`; an object holds buffer or node ids the  *)
(* way the C++ object holds pointers.  The allocator hands out the least   *)
(* free id (the claims do not depend on addresses).                        *)
(***************************************************************************)
EXTENDS Integers, Sequences, FiniteSets, TLC

\* ------------------------------------------------------------- bounds

\* Largest logical size the operations are allowed to build.
MaxLen == 3
\* Width in bits of the unsigned index type size_t (scaled down).
W == 8
\* Largest number of insertions an adapter run performs.
MaxOps == 4

\* ---------------------------------------------------------- constants

\* The null pointer of ScopedArray / auto_ptr.
NullPtr == 0
\* value_type() for the element type int.
DefaultValue == 0

\* Elements are only copied and compared for equality, never computed with:
\* value_type() and one value different from it tell every position apart.
Values == {DefaultValue, DefaultValue + 1}
\* Content of a slot that new T[n] left uninitialized.
Uninit == 0 - 1
\* size_t arithmetic is modulo 2^W.
SizeMax == 2^W - 1
HalfMax == 2^(W - 1)
Wrap(x) == x % (2^W)
Max(x, y) == IF x >= y THEN x ELSE y
Min(x, y) == IF x <= y THEN x ELSE y

\* No second object: storage in which none has been constructed.
NoArray == [mSize |-> 0, mCapacity |-> 0, mArray |-> NullPtr]

NoList == [mSize |-> 0, mTail |-> NullPtr]

\* Indices the callers pass: every small one, and the two where the
\* arithmetic of add(index, value) wraps.
Indices == (0..MaxLen) \cup {HalfMax, SizeMax}

BufIds == 1..4
\* Two lists of MaxLen - 1 elements and the temporary a copy builds, with
\* their dummy nodes, and the dummy node a copy starts with.
NodeIds == 1..(3 * MaxLen + 1)

VARIABLES
    a,          \* the ArrayList under test: [mSize, mCapacity, mArray]
    l,          \* the LinkedList under test: [mSize, mTail]
    a2,         \* a second ArrayList (runs with copies), in the same heap
    l2,         \* a second LinkedList (runs with copies), in the same heap
    bufs,       \* buffer heap: [live, data]
    nodes,      \* node heap: [live, item, prev, next]
    status,     \* "ok", or what undefined behaviour made of the run
    last,       \* the last call: its arguments and what it returned or threw
    adapter,    \* "stack" or "queue" (adapter runs), "none" otherwise
    mContainer, \* the adapter's wrapped container
    pending,    \* adapter runs: values inserted and not yet removed, oldest first
    nIn,        \* adapter runs: successful push/enqueue calls
    nOut        \* adapter runs: successful pop/dequeue calls

vars ==
    <<a, l, a2, l2, bufs, nodes, status, last, adapter, mContainer, pending, nIn, nOut>>

\* ------------------------------------------------------- buffer heap

EmptyBufs == [live |-> {}, data |-> [b \in BufIds |-> <<>>]]

FreshBuf(h) == CHOOSE b \in BufIds \ h.live : \A c \in BufIds \ h.live : b <= c

\* new T[n] for T = int: n slots of indeterminate content.
NewArray(h, n) ==
    [live |-> h.live \cup {FreshBuf(h)},
     data |-> [h.data EXCEPT ![FreshBuf(h)] = [i \in 1..n |-> Uninit]]]

\* delete[] ptr (a no-op on the null pointer).
DeleteArray(h, b) ==
    IF b = NullPtr THEN h
    ELSE [live |-> h.live \ {b}, data |-> [h.data EXCEPT ![b] = <<>>]]

\* Slot i (0-based) of buffer contents d is d[i + 1].
\* std::copy of n slots of s from sFrom to d from dFrom (in-bounds part).
CopyInto(d, dFrom, s, sFrom, n) ==
    [k \in 1..Len(d) |->
        IF k - 1 >= dFrom /\ k - 1 < dFrom + n /\ k - dFrom + sFrom <= Len(s)
        THEN s[k - dFrom + sFrom] ELSE d[k]]

\* std::fill of slots [from, to) with v (in-bounds part).
FillInto(d, from, to, v) ==
    [k \in 1..Len(d) |-> IF k - 1 >= from /\ k - 1 < to THEN v ELSE d[k]]

\* ptr[i] = v (in-bounds part).
Put(d, i, v) == [k \in 1..Len(d) |-> IF k - 1 = i THEN v ELSE d[k]]

\* ptr[i] read; outside the buffer the read is undefined and flagged by the caller.
At(d, i) == IF i < Len(d) THEN d[i + 1] ELSE Uninit

\* What an operation hands back: the object, the heap, the exception thrown
\* ("none" if it returned), whether it ran into undefined behaviour, and
\* the value returned (Uninit if none).
Outcome(self, heap, exc, ub, ret) ==
    [self |-> self, heap |-> heap, exc |-> exc, ub |-> ub, ret |-> ret]

\* --------------------------------------------------------- ArrayList

ArrayList_buf(self, h) == h.data[self.mArray]

\* ArrayList(size, value): capacity 2 * size, every element set to value.
ArrayList_ctor(h, size, value) ==
    LET cap == Wrap(size * 2)
        buf == FreshBuf(h)
        h1 == NewArray(h, cap)
    IN Outcome([mSize |-> size, mCapacity |-> cap, mArray |-> buf],
               [h1 EXCEPT !.data[buf] = FillInto(@, 0, size, value)],
               "none", FALSE, Uninit)

ArrayList_size(self) == self.mSize

ArrayList_isEmpty(self) == self.mSize = 0

\* Fault: the check written index > mSize, which lets index = mSize through.
ArrayList_rangeCheck_inclusive(self, index) == index > self.mSize

\* TRUE when rangeCheck(index) throws std::out_of_range.
ArrayList_rangeCheck(self, index) == index >= self.mSize

\* Fault: on growth std::copy stops one element short of mSize.
ArrayList_add_shortCopy(self, h, value) ==
    LET grow == self.mSize >= self.mCapacity
        newCap == Wrap(2 * self.mSize + 2)
        temp == FreshBuf(h)
        h1 == NewArray(h, newCap)
        h2 == [h1 EXCEPT !.data[temp] =
                  CopyInto(@, 0, h.data[self.mArray], 0, self.mSize - 1)]
        h3 == DeleteArray(h2, self.mArray)
        s1 == IF grow THEN [self EXCEPT !.mArray = temp, !.mCapacity = newCap]
              ELSE self
        hg == IF grow THEN h3 ELSE h
    IN Outcome([s1 EXCEPT !.mSize = Wrap(@ + 1)],
               [hg EXCEPT !.data[s1.mArray] = Put(@, self.mSize, value)],
               "none",
               self.mSize >= Len(hg.data[s1.mArray]) \/ (grow /\ self.mSize > newCap),
               Uninit)

\* Fault: growth to 2 * mSize slots, without the + 2.
ArrayList_add_doubleOnly(self, h, value) ==
    LET grow == self.mSize >= self.mCapacity
        newCap == Wrap(2 * self.mSize)
        temp == FreshBuf(h)
        h1 == NewArray(h, newCap)
        h2 == [h1 EXCEPT !.data[temp] =
                  CopyInto(@, 0, h.data[self.mArray], 0, self.mSize)]
        h3 == DeleteArray(h2, self.mArray)
        s1 == IF grow THEN [self EXCEPT !.mArray = temp, !.mCapacity = newCap]
              ELSE self
        hg == IF grow THEN h3 ELSE h
    IN Outcome([s1 EXCEPT !.mSize = Wrap(@ + 1)],
               [hg EXCEPT !.data[s1.mArray] = Put(@, self.mSize, value)],
               "none",
               self.mSize >= Len(hg.data[s1.mArray]) \/ (grow /\ self.mSize > newCap),
               Uninit)

ArrayList_add(self, h, value) ==
    LET grow == self.mSize >= self.mCapacity
        newCap == Wrap(2 * self.mSize + 2)
        temp == FreshBuf(h)
        h1 == NewArray(h, newCap)
        h2 == [h1 EXCEPT !.data[temp] =
                  CopyInto(@, 0, ArrayList_buf(self, h), 0, self.mSize)]
        \* mArray.swap(temp); temp's destructor releases the old buffer
        h3 == DeleteArray(h2, self.mArray)
        s1 == IF grow THEN [self EXCEPT !.mArray = temp, !.mCapacity = newCap]
              ELSE self
        hg == IF grow THEN h3 ELSE h
    IN Outcome([s1 EXCEPT !.mSize = Wrap(@ + 1)],
               [hg EXCEPT !.data[s1.mArray] = Put(@, self.mSize, value)],
               "none",
               self.mSize >= Len(hg.data[s1.mArray]) \/ (grow /\ self.mSize > newCap),
               Uninit)

ArrayList_addAt(self, h, index, value) ==
    LET newSize == Wrap(Max(index, self.mSize) + 1)
        newCap == Wrap(2 * newSize)
        temp == FreshBuf(h)
        h1 == NewArray(h, newCap)
        old == ArrayList_buf(self, h)
        n0 == Min(index, self.mSize)
        d1 == CopyInto(h1.data[temp], 0, old, 0, n0)
        d2 == IF index < self.mSize
              THEN CopyInto(d1, index + 1, old, index, self.mSize - index)
              ELSE FillInto(d1, self.mSize, index, DefaultValue)
        d3 == Put(d2, index, value)
        h2 == [h1 EXCEPT !.data[temp] = d3]
        \* every write that lands outside the newCap slots of temp
        ub == \/ n0 > newCap
              \/ index < self.mSize /\ self.mSize + 1 > newCap
              \/ index >= self.mSize /\ index > newCap
              \/ index >= newCap
    IN Outcome([mSize |-> newSize, mCapacity |-> newCap, mArray |-> temp],
               DeleteArray(h2, self.mArray),
               "none", ub, Uninit)

ArrayList_get(self, h, index) ==
    IF ArrayList_rangeCheck(self, index)
    THEN Outcome(self, h, "out_of_range", FALSE, Uninit)
    ELSE Outcome(self, h, "none",
                 index >= Len(ArrayList_buf(self, h)),
                 At(ArrayList_buf(self, h), index))

\* Fault: the mutable get returns a copy, so the store never reaches the buffer.
ArrayList_getAssign_toCopy(self, h, index, value) ==
    IF index >= self.mSize
    THEN Outcome(self, h, "out_of_range", FALSE, Uninit)
    ELSE Outcome(self, h, "none", index >= Len(h.data[self.mArray]), Uninit)

\* get(index) = value: a store through the reference the mutable get returns.
ArrayList_getAssign(self, h, index, value) ==
    IF ArrayList_rangeCheck(self, index)
    THEN Outcome(self, h, "out_of_range", FALSE, Uninit)
    ELSE Outcome(self,
                 [h EXCEPT !.data[self.mArray] = Put(@, index, value)],
                 "none", index >= Len(ArrayList_buf(self, h)), Uninit)

ArrayList_set(self, h, index, value) ==
    IF ArrayList_rangeCheck(self, index)
    THEN Outcome(self, h, "out_of_range", FALSE, Uninit)
    ELSE Outcome(self,
                 [h EXCEPT !.data[self.mArray] = Put(@, index, value)],
                 "none", index >= Len(ArrayList_buf(self, h)), Uninit)

\* Fault: the second std::copy starts at index instead of index + 1, so the
\* removed element stays and the last one is dropped.
ArrayList_remove_noSkip(self, h, index) ==
    IF index >= self.mSize
    THEN Outcome(self, h, "out_of_range", FALSE, Uninit)
    ELSE
        LET old == h.data[self.mArray]
            shift == index < Wrap(self.mSize - 1)
            temp == FreshBuf(h)
            h1 == NewArray(h, self.mCapacity)
            d1 == CopyInto(h1.data[temp], 0, old, 0, index)
            d2 == CopyInto(d1, index, old, index, self.mSize - index - 1)
            h2 == DeleteArray([h1 EXCEPT !.data[temp] = d2], self.mArray)
            s1 == IF shift THEN [self EXCEPT !.mArray = temp] ELSE self
        IN Outcome([s1 EXCEPT !.mSize = Wrap(@ - 1)],
                   IF shift THEN h2 ELSE h,
                   "none",
                   index >= Len(old) \/ (shift /\ self.mSize > Len(old)),
                   At(old, index))

\* Fault: --mSize left out.
ArrayList_remove_keepSize(self, h, index) ==
    IF index >= self.mSize
    THEN Outcome(self, h, "out_of_range", FALSE, Uninit)
    ELSE
        LET old == h.data[self.mArray]
            shift == index < Wrap(self.mSize - 1)
            temp == FreshBuf(h)
            h1 == NewArray(h, self.mCapacity)
            d1 == CopyInto(h1.data[temp], 0, old, 0, index)
            d2 == CopyInto(d1, index, old, index + 1, self.mSize - index - 1)
            h2 == DeleteArray([h1 EXCEPT !.data[temp] = d2], self.mArray)
            s1 == IF shift THEN [self EXCEPT !.mArray = temp] ELSE self
        IN Outcome(s1, IF shift THEN h2 ELSE h, "none",
                   index >= Len(old) \/ (shift /\ self.mSize > Len(old)),
                   At(old, index))

ArrayList_remove(self, h, index) ==
    IF ArrayList_rangeCheck(self, index)
    THEN Outcome(self, h, "out_of_range", FALSE, Uninit)
    ELSE
        LET old == ArrayList_buf(self, h)
            result == At(old, index)
            shift == index < Wrap(self.mSize - 1)
            temp == FreshBuf(h)
            h1 == NewArray(h, self.mCapacity)
            d1 == CopyInto(h1.data[temp], 0, old, 0, index)
            d2 == CopyInto(d1, index, old, index + 1, self.mSize - index - 1)
            h2 == DeleteArray([h1 EXCEPT !.data[temp] = d2], self.mArray)
            s1 == IF shift THEN [self EXCEPT !.mArray = temp] ELSE self
        IN Outcome([s1 EXCEPT !.mSize = Wrap(@ - 1)],
                   IF shift THEN h2 ELSE h,
                   "none",
                   index >= Len(old) \/ (shift /\ self.mSize > Len(old)),
                   result)

\* swap(other): the two objects exchange mSize, mCapacity and mArray.
ArrayList_swap(self, other) == [this |-> other, other |-> self]

\* ~ArrayList(): the ScopedArray member releases the buffer. Yields the heap.
ArrayList_dtor(self, h) == DeleteArray(h, self.mArray)

\* Fault: clear() that only resets mSize and keeps buffer and capacity.
ArrayList_clear_sizeOnly(self, h) ==
    Outcome([self EXCEPT !.mSize = 0], h, "none", FALSE, Uninit)

\* clear(): ArrayList<T> empty; swap(empty); empty's destructor releases the
\* buffer this list had.
ArrayList_clear(self, h) ==
    LET empty == ArrayList_ctor(h, 0, DefaultValue)
        s == ArrayList_swap(self, empty.self)
    IN Outcome(s.this, ArrayList_dtor(s.other, empty.heap), "none", FALSE, Uninit)

\* The exits of the operations when a step of theirs throws. Step 0 is the
\* allocation new T[n] (std::bad_alloc); step k >= 1 is the k-th element
\* written into the new buffer (the element type's assignment throws).
\* Unwinding runs the destructor of the ScopedArray temp. The value to add is
\* stored last and shows in no state a throwing call leaves, so these exits
\* do not take it.

\* Fault: the new buffer held by a raw pointer, which unwinding does not release.
ArrayList_addThrows_rawPointer(self, h, step) ==
    LET temp == FreshBuf(h)
        h1 == NewArray(h, Wrap(2 * self.mSize + 2))
    IN IF step = 0 THEN Outcome(self, h, "bad_alloc", FALSE, Uninit)
       ELSE Outcome(self,
                    [h1 EXCEPT !.data[temp] =
                        CopyInto(@, 0, h.data[self.mArray], 0, step - 1)],
                    "copy_error", FALSE, Uninit)

\* add(value) on the growth path, when step (0 .. mSize) throws.
ArrayList_addThrows(self, h, step) ==
    LET newCap == Wrap(2 * self.mSize + 2)
        temp == FreshBuf(h)
        h1 == NewArray(h, newCap)
        h2 == [h1 EXCEPT !.data[temp] =
                  CopyInto(@, 0, ArrayList_buf(self, h), 0, step - 1)]
    IN IF step = 0 THEN Outcome(self, h, "bad_alloc", FALSE, Uninit)
       ELSE Outcome(self, DeleteArray(h2, temp), "copy_error", FALSE, Uninit)

\* add(index, value) when step (0 .. new size) throws: every step comes
\* before the swaps.
ArrayList_addAtThrows(self, h, index, step) ==
    LET newSize == Wrap(Max(index, self.mSize) + 1)
        newCap == Wrap(2 * newSize)
        temp == FreshBuf(h)
        h1 == NewArray(h, newCap)
        old == ArrayList_buf(self, h)
        n0 == Min(index, self.mSize)
        rest == Max(step - 1 - n0, 0)
        d1 == CopyInto(h1.data[temp], 0, old, 0, Min(step - 1, n0))
        d2 == IF index < self.mSize
              THEN CopyInto(d1, index + 1, old, index, Min(rest, self.mSize - index))
              ELSE FillInto(d1, self.mSize, self.mSize + Min(rest, index - self.mSize),
                            DefaultValue)
        h2 == [h1 EXCEPT !.data[temp] = d2]
    IN IF step = 0 THEN Outcome(self, h, "bad_alloc", FALSE, Uninit)
       ELSE Outcome(self, DeleteArray(h2, temp), "copy_error", FALSE, Uninit)

\* Fault: the replacement buffer held by a raw pointer, which unwinding does
\* not release.
ArrayList_removeThrows_rawPointer(self, h, index, step) ==
    LET temp == FreshBuf(h)
        h1 == NewArray(h, self.mCapacity)
    IN IF step = 0 THEN Outcome(self, h, "bad_alloc", FALSE, Uninit)
       ELSE Outcome(self,
                    [h1 EXCEPT !.data[temp] =
                        CopyInto(@, 0, h.data[self.mArray], 0, Min(step - 1, index))],
                    "copy_error", FALSE, Uninit)

\* remove(index), index not the last, when step (0 .. mSize - 1) throws: every
\* step comes before the swap and --mSize.
ArrayList_removeThrows(self, h, index, step) ==
    LET old == ArrayList_buf(self, h)
        temp == FreshBuf(h)
        h1 == NewArray(h, self.mCapacity)
        d1 == CopyInto(h1.data[temp], 0, old, 0, Min(step - 1, index))
        d2 == CopyInto(d1, index, old, index + 1, Max(step - 1 - index, 0))
        h2 == [h1 EXCEPT !.data[temp] = d2]
    IN IF step = 0 THEN Outcome(self, h, "bad_alloc", FALSE, Uninit)
       ELSE Outcome(self, DeleteArray(h2, temp), "copy_error", FALSE, Uninit)

\* Fault: the copy shares the source's buffer (a member-wise copy).
ArrayList_copy_shallow(h, src) == Outcome(src, h, "none", FALSE, Uninit)

\* Fault: the copy takes over the source's capacity.
ArrayList_copy_fullCapacity(h, src) ==
    LET buf == FreshBuf(h)
        h1 == NewArray(h, src.mCapacity)
    IN Outcome([mSize |-> src.mSize, mCapacity |-> src.mCapacity, mArray |-> buf],
               [h1 EXCEPT !.data[buf] = CopyInto(@, 0, h.data[src.mArray], 0, src.mSize)],
               "none", FALSE, Uninit)

\* ArrayList(const ArrayList& src): mSize and mCapacity are src.mSize, the
\* elements [0, src.mSize) are copied into a new buffer. Yields the new object.
ArrayList_copy(h, src) ==
    LET buf == FreshBuf(h)
        h1 == NewArray(h, src.mSize)
    IN Outcome([mSize |-> src.mSize, mCapacity |-> src.mSize, mArray |-> buf],
               [h1 EXCEPT !.data[buf] =
                   CopyInto(@, 0, ArrayList_buf(src, h), 0, src.mSize)],
               "none", src.mSize > Len(ArrayList_buf(src, h)), Uninit)

\* operator=(rhs): nothing when rhs is this object (same); otherwise
\* ArrayList<T> copy(rhs); swap(copy); copy's destructor releases the buffer
\* this list had.
ArrayList_assign(self, h, rhs, same) ==
    IF same THEN Outcome(self, h, "none", FALSE, Uninit)
    ELSE LET copy == ArrayList_copy(h, rhs)
             s == ArrayList_swap(self, copy.self)
         IN Outcome(s.this, ArrayList_dtor(s.other, copy.heap), "none", copy.ub, Uninit)

\* Fault: the target is emptied before the copy of rhs is built.
ArrayList_assignThrows_clearFirst(self, h, rhs, step) ==
    LET c == ArrayList_clear(self, h)
    IN Outcome(c.self, c.heap, IF step = 0 THEN "bad_alloc" ELSE "copy_error",
               FALSE, Uninit)

\* operator=(rhs), rhs another object, in which the copy constructor throws:
\* new T[rhs.mSize] (step 0), or the copy of element step - 1 after the
\* elements before it were copied; the ScopedArray of the unfinished copy
\* releases its buffer, swap is not reached.
ArrayList_assignThrows(self, h, rhs, step) ==
    LET buf == FreshBuf(h)
        h1 == NewArray(h, rhs.mSize)
        h2 == [h1 EXCEPT !.data[buf] =
                  CopyInto(@, 0, ArrayList_buf(rhs, h), 0, step - 1)]
    IN IF step = 0 THEN Outcome(self, h, "bad_alloc", FALSE, Uninit)
       ELSE Outcome(self, DeleteArray(h2, buf), "copy_error", FALSE, Uninit)

\* std::equal(begin(), end(), rhs.begin()) on the slots from k on.
RECURSIVE ArrayList_equalRange(_, _, _, _)
ArrayList_equalRange(d, rd, k, n) ==
    IF k >= n THEN TRUE
    ELSE At(d, k) = At(rd, k) /\ ArrayList_equalRange(d, rd, k + 1, n)

\* Fault: the sizes are not compared.
ArrayList_equals_noSize(self, h, rhs) ==
    ArrayList_equalRange(h.data[self.mArray], h.data[rhs.mArray], 0, self.mSize)

\* operator==(rhs)
ArrayList_equals(self, h, rhs) ==
    /\ self.mSize = rhs.mSize
    /\ ArrayList_equalRange(ArrayList_buf(self, h), ArrayList_buf(rhs, h), 0, self.mSize)

\* The logical contents, read the way a caller can: get(0) .. get(size - 1).
ArrayList_elems(self, h) ==
    [i \in 1..self.mSize |-> At(ArrayList_buf(self, h), i - 1)]

\* --------------------------------------------------------- node heap

EmptyNodes ==
    [live |-> {},
     item |-> [n \in NodeIds |-> Uninit],
     prev |-> [n \in NodeIds |-> n],
     next |-> [n \in NodeIds |-> n]]

FreeNodes(h) == NodeIds \ h.live

FreshNode(h) == CHOOSE n \in FreeNodes(h) : \A m \in FreeNodes(h) : n <= m

\* link(first, second): first->mNext = second; second->mPrev = first.
\* Variant: only the forward pointer is set.
LinkedListNode_link_oneWay(h, first, second) ==
    [h EXCEPT !.next[first] = second]

LinkedListNode_link(h, first, second) ==
    [h EXCEPT !.next[first] = second, !.prev[second] = first]

\* new LinkedListNode(item): a node linked to itself.
LinkedListNode_new(h, item) ==
    LET n == FreshNode(h)
    IN [live |-> h.live \cup {n},
        item |-> [h.item EXCEPT ![n] = item],
        prev |-> [h.prev EXCEPT ![n] = n],
        next |-> [h.next EXCEPT ![n] = n]]

\* new LinkedListNode(item, prev, next): a node linked in between prev and next.
LinkedListNode_newBetween(h, item, prev, next) ==
    LET n == FreshNode(h)
        h1 == [live |-> h.live \cup {n},
               item |-> [h.item EXCEPT ![n] = item],
               prev |-> [h.prev EXCEPT ![n] = prev],
               next |-> [h.next EXCEPT ![n] = next]]
    IN LinkedListNode_link(LinkedListNode_link(h1, h1.prev[n], n), n, h1.next[n])

\* operator new for a node: memory whose fields no constructor has set.
LinkedListNode_allocate(h) == [h EXCEPT !.live = @ \cup {FreshNode(h)}]

\* operator delete for a node whose constructor did not finish: no destructor runs.
LinkedListNode_release(h, n) == [h EXCEPT !.live = @ \ {n}]

\* Fault: the node is linked in before its item is copied.
LinkedListNode_newBetweenThrows_linkFirst(h, prev, next, step) ==
    LET n == FreshNode(h)
        h1 == LinkedListNode_allocate(h)
        h2 == LinkedListNode_link(LinkedListNode_link(h1, prev, n), n, next)
    IN IF step = 0 THEN h ELSE LinkedListNode_release(h2, n)

\* new LinkedListNode(item, prev, next) that throws: operator new (step 0),
\* or the copy of item into mItem (step 1), the first thing the constructor
\* does; the memory is released and link was never reached. Yields the heap.
LinkedListNode_newBetweenThrows(h, prev, next, step) ==
    LET n == FreshNode(h)
        h1 == LinkedListNode_allocate(h)
    IN IF step = 0 THEN h ELSE LinkedListNode_release(h1, n)

\* What the throwing step throws.
Thrown(step) == IF step = 0 THEN "bad_alloc" ELSE "copy_error"

\* delete node: the destructor links mPrev to mNext, then the memory is released.
LinkedListNode_delete(h, n) ==
    LET h1 == LinkedListNode_link(h, h.prev[n], h.next[n])
    IN [live |-> h1.live \ {n},
        item |-> [h1.item EXCEPT ![n] = Uninit],
        prev |-> [h1.prev EXCEPT ![n] = n],
        next |-> [h1.next EXCEPT ![n] = n]]

\* ++iter, k times (std::advance on a forward iterator).
RECURSIVE advance(_, _, _)
advance(h, ptr, k) == IF k <= 0 THEN ptr ELSE advance(h, h.next[ptr], k - 1)

\* The number of mNext links std::advance(iter, k) follows: one for each ++.
RECURSIVE advanceLinks(_, _, _)
advanceLinks(h, ptr, k) == IF k <= 0 THEN 0 ELSE 1 + advanceLinks(h, h.next[ptr], k - 1)

\* -------------------------------------------------------- LinkedList

\* LinkedList(): size 0 and a fresh dummy node. Yields the list and the heap.
LinkedList_ctor(h) ==
    Outcome([mSize |-> 0, mTail |-> FreshNode(h)],
            LinkedListNode_new(h, DefaultValue), "none", FALSE, Uninit)

LinkedList_size(self) == self.mSize

LinkedList_isEmpty(self) == self.mSize = 0

LinkedList_begin(self, h) == h.next[self.mTail]

LinkedList_end(self, h) == self.mTail

\* TRUE when rangeCheck(index) throws std::out_of_range.
LinkedList_rangeCheck(self, index) == index >= self.mSize

\* Fault: --mSize left out.
LinkedList_removeNode_keepSize(self, h, ptr) ==
    Outcome(self, LinkedListNode_delete(h, ptr), "none", ptr \notin h.live, Uninit)

\* removeNode(iter): delete the node, --mSize.
LinkedList_removeNode(self, h, ptr) ==
    Outcome([self EXCEPT !.mSize = Wrap(@ - 1)],
            LinkedListNode_delete(h, ptr), "none", ptr \notin h.live, Uninit)

\* ~LinkedList(): remove the head while the list is not empty, then the
\* auto_ptr releases the dummy node. Yields the heap.
RECURSIVE LinkedList_dtor(_, _)
LinkedList_dtor(self, h) ==
    IF ~LinkedList_isEmpty(self) /\ self.mSize <= Cardinality(NodeIds)
    THEN LET r == LinkedList_removeNode(self, h, LinkedList_begin(self, h))
         IN LinkedList_dtor(r.self, r.heap)
    ELSE LinkedListNode_delete(h, self.mTail)

\* Fault: the destructor the compiler would generate: mTail alone is deleted.
LinkedList_dtorRun_tailOnly(self, h, freed) ==
    [heap |-> LinkedListNode_delete(h, self.mTail),
     freed |-> Append(freed, self.mTail),
     done |-> TRUE]

\* ~LinkedList() with the nodes it deletes written down in order: freed so
\* far, the heap afterwards, and whether the loop ended by itself (the walk
\* is cut off once more nodes were deleted than exist).
RECURSIVE LinkedList_dtorRun(_, _, _)
LinkedList_dtorRun(self, h, freed) ==
    IF ~LinkedList_isEmpty(self) /\ Len(freed) <= Cardinality(NodeIds)
    THEN LET ptr == LinkedList_begin(self, h)
             r == LinkedList_removeNode(self, h, ptr)
         IN LinkedList_dtorRun(r.self, r.heap, Append(freed, ptr))
    ELSE [heap |-> LinkedListNode_delete(h, self.mTail),
          freed |-> Append(freed, self.mTail),
          done |-> LinkedList_isEmpty(self)]

\* Fault: the new node linked in after the dummy node instead of before it.
LinkedList_add_atHead(self, h, value) ==
    IF FreeNodes(h) = {}
    THEN Outcome(self, h, "bad_alloc", FALSE, Uninit)
    ELSE Outcome([self EXCEPT !.mSize = Wrap(@ + 1)],
                 LinkedListNode_newBetween(h, value, self.mTail, h.next[self.mTail]),
                 "none", self.mTail \notin h.live, Uninit)

LinkedList_add(self, h, value) ==
    IF FreeNodes(h) = {}
    THEN Outcome(self, h, "bad_alloc", FALSE, Uninit)
    ELSE Outcome([self EXCEPT !.mSize = Wrap(@ + 1)],
                 LinkedListNode_newBetween(h, value, h.prev[self.mTail], self.mTail),
                 "none", self.mTail \notin h.live, Uninit)

\* add(value) in which the construction of the node throws; ++mSize is not
\* reached.
LinkedList_addThrows(self, h, step) ==
    Outcome(self,
            LinkedListNode_newBetweenThrows(h, h.prev[self.mTail], self.mTail, step),
            Thrown(step), FALSE, Uninit)

\* The mNext links add(value) follows: none, the new node is constructed
\* between mTail->mPrev and mTail.
LinkedList_addLinks(self, h, value) == 0

\* for (i = size(); i < index; ++i) temp.add(value_type());
RECURSIVE LinkedList_addDefaults(_, _, _)
LinkedList_addDefaults(temp, h, k) ==
    IF k <= 0 THEN Outcome(temp, h, "none", FALSE, Uninit)
    ELSE LET r == LinkedList_add(temp, h, DefaultValue)
         IN LinkedList_addDefaults(r.self, r.heap, k - 1)

LinkedList_addAt(self, h, index, value) ==
    IF index < self.mSize
    THEN
        IF FreeNodes(h) = {}
        THEN Outcome(self, h, "bad_alloc", FALSE, Uninit)
        ELSE LET ptr == advance(h, LinkedList_begin(self, h), index)
             IN Outcome([self EXCEPT !.mSize = Wrap(@ + 1)],
                        LinkedListNode_newBetween(h, value, h.prev[ptr], ptr),
                        "none", self.mTail \notin h.live, Uninit)
    ELSE
        \* the temporary needs its dummy node, index - size default nodes and
        \* the value node; when the heap cannot hold them, new throws and the
        \* unwinding destroys the temporary with every node built so far
        IF index - self.mSize + 2 > Cardinality(FreeNodes(h))
        THEN Outcome(self, h, "bad_alloc", FALSE, Uninit)
        ELSE
            LET t0 == LinkedList_ctor(h)
                t1 == LinkedList_addDefaults(t0.self, t0.heap, index - self.mSize)
                t2 == LinkedList_add(t1.self, t1.heap, value)
                temp == t2.self
                h2 == t2.heap
                curLast == h2.prev[self.mTail]
                tempFirst == h2.next[temp.mTail]
                tempLast == h2.prev[temp.mTail]
                h3 == LinkedListNode_link(h2, curLast, tempFirst)
                h4 == LinkedListNode_link(h3, tempLast, self.mTail)
                h5 == LinkedListNode_link(h4, temp.mTail, temp.mTail)
            IN Outcome([self EXCEPT !.mSize = Wrap(index + 1)],
                       LinkedList_dtor([temp EXCEPT !.mSize = 0], h5),
                       "none", self.mTail \notin h.live, Uninit)

\* Fault: the new nodes are appended to this list one by one.
LinkedList_addAtThrows_inPlace(self, h, index, step) ==
    IF index < self.mSize
    THEN Outcome(self, h, Thrown(step), FALSE, Uninit)
    ELSE LET t == LinkedList_addDefaults(self, h, step - 1)
         IN Outcome(t.self, t.heap, Thrown(step), FALSE, Uninit)

\* add(index, value) in which a step throws. index < size: the construction
\* of the node (step 0 its new, step 1 the copy of its item). Otherwise the
\* constructor of the temporary (step 0) or its add number step, after
\* step - 1 nodes were added; unwinding destroys the temporary with the
\* nodes it has, and the relinking is not reached.
LinkedList_addAtThrows(self, h, index, step) ==
    IF index < self.mSize
    THEN LET ptr == advance(h, LinkedList_begin(self, h), index)
         IN Outcome(self, LinkedListNode_newBetweenThrows(h, h.prev[ptr], ptr, step),
                    Thrown(step), FALSE, Uninit)
    ELSE IF step = 0 THEN Outcome(self, h, "bad_alloc", FALSE, Uninit)
    ELSE LET t0 == LinkedList_ctor(h)
             t1 == LinkedList_addDefaults(t0.self, t0.heap, step - 1)
         IN Outcome(self, LinkedList_dtor(t1.self, t1.heap), "bad_alloc", FALSE, Uninit)

\* Fault: the iterator advanced once too often.
LinkedList_get_offByOne(self, h, index) ==
    IF index >= self.mSize
    THEN Outcome(self, h, "out_of_range", FALSE, Uninit)
    ELSE LET ptr == advance(h, h.next[self.mTail], index + 1)
         IN Outcome(self, h, "none", ptr \notin h.live, h.item[ptr])

LinkedList_get(self, h, index) ==
    IF LinkedList_rangeCheck(self, index)
    THEN Outcome(self, h, "out_of_range", FALSE, Uninit)
    ELSE LET ptr == advance(h, LinkedList_begin(self, h), index)
         IN Outcome(self, h, "none", ptr \notin h.live, h.item[ptr])

\* get(index) = value: a store through the reference the mutable get returns.
LinkedList_getAssign(self, h, index, value) ==
    IF LinkedList_rangeCheck(self, index)
    THEN Outcome(self, h, "out_of_range", FALSE, Uninit)
    ELSE LET ptr == advance(h, LinkedList_begin(self, h), index)
         IN Outcome(self, [h EXCEPT !.item[ptr] = value],
                    "none", ptr \notin h.live, Uninit)

LinkedList_remove(self, h, index) ==
    IF LinkedList_rangeCheck(self, index)
    THEN Outcome(self, h, "out_of_range", FALSE, Uninit)
    ELSE LinkedList_removeNode(self, h, advance(h, LinkedList_begin(self, h), index))

\* The mNext links remove(index) follows: those of begin() and of
\* std::advance(iter, index), whatever the index.
LinkedList_removeLinks(self, h, index) ==
    IF LinkedList_rangeCheck(self, index) THEN 0
    ELSE 1 + advanceLinks(h, LinkedList_begin(self, h), index)

\* Fault: link(oldNode, oldNode) left out, so the old node's destructor
\* links its former neighbours to each other and cuts the new node out.
LinkedList_set_unlinked(self, h, index, value) ==
    IF index >= self.mSize
    THEN Outcome(self, h, "out_of_range", FALSE, Uninit)
    ELSE IF FreeNodes(h) = {}
    THEN Outcome(self, h, "bad_alloc", FALSE, Uninit)
    ELSE LET oldNode == advance(h, h.next[self.mTail], index)
             h1 == LinkedListNode_newBetween(h, value, h.prev[oldNode], h.next[oldNode])
         IN Outcome(self, LinkedListNode_delete(h1, oldNode),
                    "none", oldNode \notin h.live, Uninit)

LinkedList_set(self, h, index, value) ==
    IF LinkedList_rangeCheck(self, index)
    THEN Outcome(self, h, "out_of_range", FALSE, Uninit)
    ELSE IF FreeNodes(h) = {}
    THEN Outcome(self, h, "bad_alloc", FALSE, Uninit)
    ELSE LET oldNode == advance(h, LinkedList_begin(self, h), index)
             h1 == LinkedListNode_newBetween(h, value, h.prev[oldNode], h.next[oldNode])
             h2 == LinkedListNode_link(h1, oldNode, oldNode)
         IN Outcome(self, LinkedListNode_delete(h2, oldNode),
                    "none", oldNode \notin h.live, Uninit)

\* Fault: the old node is deleted before the replacement is built.
LinkedList_setThrows_deleteFirst(self, h, index, step) ==
    LET oldNode == advance(h, LinkedList_begin(self, h), index)
    IN Outcome(self, LinkedListNode_delete(h, oldNode), Thrown(step), FALSE, Uninit)

\* set(index, value), index in range, in which the construction of the
\* replacement throws; link(oldNode, oldNode) and delete are not reached.
LinkedList_setThrows(self, h, index, step) ==
    LET oldNode == advance(h, LinkedList_begin(self, h), index)
    IN Outcome(self,
               LinkedListNode_newBetweenThrows(h, h.prev[oldNode], h.next[oldNode], step),
               Thrown(step), FALSE, Uninit)

\* swap(other): the two objects exchange mSize and mTail.
LinkedList_swap(self, other) == [this |-> other, other |-> self]

\* clear(): LinkedList<T> empty; swap(empty); empty's destructor releases
\* the nodes this list had.
LinkedList_clear(self, h) ==
    LET empty == LinkedList_ctor(h)
        s == LinkedList_swap(self, empty.self)
    IN Outcome(s.this, LinkedList_dtor(s.other, empty.heap), "none", FALSE, Uninit)

\* for (iter = src.begin(); iter != src.end(); ++iter) temp.add(*iter);
\* from iterator ptr on. fuel bounds the walk of a chain that does not lead
\* back to src's dummy node, where the loop would not end.
RECURSIVE LinkedList_addAll(_, _, _, _, _)
LinkedList_addAll(temp, h, src, ptr, fuel) ==
    IF ptr = LinkedList_end(src, h) THEN Outcome(temp, h, "none", FALSE, Uninit)
    ELSE IF fuel = 0 THEN Outcome(temp, h, "none", TRUE, Uninit)
    ELSE LET r == LinkedList_add(temp, h, h.item[ptr])
         IN IF r.exc # "none" THEN r
            ELSE LinkedList_addAll(r.self, r.heap, src, h.next[ptr], fuel - 1)

\* LinkedList(const LinkedList& src): mSize(0), mTail(new node); a temporary
\* receives src's elements and is swapped in; its destructor releases the
\* dummy node this list started with. When an allocation throws, unwinding
\* destroys the temporary and mTail. Yields the new object.
LinkedList_copy(h, src) ==
    IF Cardinality(FreeNodes(h)) < 2
    THEN Outcome(NoList, h, "bad_alloc", FALSE, Uninit)
    ELSE LET this == LinkedList_ctor(h)
             temp == LinkedList_ctor(this.heap)
             filled == LinkedList_addAll(temp.self, temp.heap, src,
                                         LinkedList_begin(src, temp.heap),
                                         Cardinality(NodeIds))
             s == LinkedList_swap(this.self, filled.self)
         IN IF filled.exc # "none"
            THEN Outcome(NoList,
                         LinkedListNode_delete(LinkedList_dtor(filled.self, filled.heap),
                                               this.self.mTail),
                         "bad_alloc", FALSE, Uninit)
            ELSE Outcome(s.this, LinkedList_dtor(s.other, filled.heap),
                         "none", filled.ub, Uninit)

\* operator=(rhs): nothing when rhs is this object (same); otherwise
\* LinkedList<T> copy(rhs); swap(copy); copy's destructor releases the nodes
\* this list had.
LinkedList_assign(self, h, rhs, same) ==
    IF same THEN Outcome(self, h, "none", FALSE, Uninit)
    ELSE LET copy == LinkedList_copy(h, rhs)
             s == LinkedList_swap(self, copy.self)
         IN IF copy.exc # "none" THEN Outcome(self, copy.heap, copy.exc, FALSE, Uninit)
            ELSE Outcome(s.this, LinkedList_dtor(s.other, copy.heap),
                         "none", copy.ub, Uninit)

\* The first n passes of the copy constructor's loop, from iterator ptr on.
RECURSIVE LinkedList_addSome(_, _, _, _)
LinkedList_addSome(temp, h, ptr, n) ==
    IF n <= 0 THEN Outcome(temp, h, "none", FALSE, Uninit)
    ELSE LET r == LinkedList_add(temp, h, h.item[ptr])
         IN LinkedList_addSome(r.self, r.heap, h.next[ptr], n - 1)

\* Fault: the unfinished copy and its temporary are not destroyed.
LinkedList_assignThrows_leak(self, h, rhs, step) ==
    LET this == LinkedList_ctor(h)
        temp == LinkedList_ctor(this.heap)
        some == LinkedList_addSome(temp.self, temp.heap,
                                   LinkedList_begin(rhs, temp.heap), step - 2)
    IN IF step = 0 THEN Outcome(self, h, "bad_alloc", FALSE, Uninit)
       ELSE IF step = 1 THEN Outcome(self, this.heap, "bad_alloc", FALSE, Uninit)
       ELSE Outcome(self, some.heap, "copy_error", FALSE, Uninit)

\* operator=(rhs), rhs another object, in which the copy constructor throws:
\* the new of its dummy node (step 0), the constructor of its temporary
\* (step 1), or temp.add of element step - 2 after the elements before it
\* were added. Unwinding destroys the temporary with the nodes it has, then
\* the dummy node of the unfinished copy; swap is not reached.
LinkedList_assignThrows(self, h, rhs, step) ==
    LET this == LinkedList_ctor(h)
        temp == LinkedList_ctor(this.heap)
        some == LinkedList_addSome(temp.self, temp.heap,
                                   LinkedList_begin(rhs, temp.heap), step - 2)
    IN IF step = 0 THEN Outcome(self, h, "bad_alloc", FALSE, Uninit)
       ELSE IF step = 1
       THEN Outcome(self, LinkedListNode_delete(this.heap, this.self.mTail),
                    "bad_alloc", FALSE, Uninit)
       ELSE Outcome(self,
                    LinkedListNode_delete(LinkedList_dtor(some.self, some.heap),
                                          this.self.mTail),
                    "copy_error", FALSE, Uninit)

\* std::equal(begin(), end(), rhs.begin()) from iterators ptr and rptr on.
RECURSIVE LinkedList_equalRange(_, _, _, _, _)
LinkedList_equalRange(h, ptr, end, rptr, fuel) ==
    IF ptr = end \/ fuel = 0 THEN TRUE
    ELSE /\ h.item[ptr] = h.item[rptr]
         /\ LinkedList_equalRange(h, h.next[ptr], end, h.next[rptr], fuel - 1)

\* operator==(rhs)
LinkedList_equals(self, h, rhs) ==
    /\ self.mSize = rhs.mSize
    /\ LinkedList_equalRange(h, LinkedList_begin(self, h), LinkedList_end(self, h),
                             LinkedList_begin(rhs, h), Cardinality(NodeIds))

\* Fault: ++iter follows mPrev.
LinkedListIterator_increment_backward(h, ptr) == h.prev[ptr]

\* ++iter: mPtr = mPtr->mNext.
LinkedListIterator_increment(h, ptr) == h.next[ptr]

\* for (iter = begin(); iter != end(); ++iter): the elements *iter visited
\* from iterator ptr on, after those in seen. A loop that does not come to
\* end() is cut off once it has visited more elements than nodes exist.
RECURSIVE LinkedList_iterate(_, _, _, _)
LinkedList_iterate(self, h, ptr, seen) ==
    IF ptr = LinkedList_end(self, h) \/ Len(seen) > Cardinality(NodeIds) THEN seen
    ELSE LinkedList_iterate(self, h, LinkedListIterator_increment(h, ptr),
                            Append(seen, h.item[ptr]))

\* The logical contents, read the way a caller can: get(0) .. get(size - 1).
LinkedList_elems(self, h) ==
    [i \in 1..self.mSize |-> h.item[advance(h, LinkedList_begin(self, h), i - 1)]]

\* ------------------------------------------------ addresses up to renaming

\* No operation compares or orders addresses, so a heap is kept up to a
\* renaming of its ids: after every call the ids are renumbered in the order
\* the owner reaches them (symmetry reduction of the state space).

Range(f) == {f[i] : i \in DOMAIN f}

RECURSIVE Sorted(_)
Sorted(S) ==
    IF S = {} THEN <<>>
    ELSE LET m == CHOOSE x \in S : \A y \in S : x <= y
         IN <<m>> \o Sorted(S \ {m})

Pos(order, n) == CHOOSE k \in DOMAIN order : order[k] = n

\* The nodes met following mNext from ptr, until one repeats.
RECURSIVE Chain(_, _, _)
Chain(h, ptr, acc) ==
    IF ptr \in Range(acc) THEN acc ELSE Chain(h, h.next[ptr], Append(acc, ptr))

NodeOrder(h, root) ==
    LET c == Chain(h, root, <<>>)
    IN c \o Sorted(h.live \ Range(c)) \o Sorted(NodeIds \ (h.live \cup Range(c)))

CanonNodes(h, root) ==
    LET o == NodeOrder(h, root)
    IN [live |-> {k \in NodeIds : o[k] \in h.live},
        item |-> [k \in NodeIds |-> h.item[o[k]]],
        prev |-> [k \in NodeIds |-> Pos(o, h.prev[o[k]])],
        next |-> [k \in NodeIds |-> Pos(o, h.next[o[k]])]]

CanonList(self, h) == [self EXCEPT !.mTail = Pos(NodeOrder(h, self.mTail), @)]

BufOrder(h, root) ==
    <<root>> \o Sorted(h.live \ {root}) \o Sorted(BufIds \ (h.live \cup {root}))

CanonBufs(h, root) ==
    LET o == BufOrder(h, root)
    IN [live |-> {k \in BufIds : o[k] \in h.live},
        data |-> [k \in BufIds |-> h.data[o[k]]]]

CanonArray(self, h) == [self EXCEPT !.mArray = Pos(BufOrder(h, self.mArray), @)]

\* ------------------------------------------------ EnforcedIntAdaptee

\* The test adaptee: a std::vector<int> behind add/get/remove/size, with no
\* bounds check of its own.

EnforcedIntAdaptee_ctor == [mData |-> <<>>]

EnforcedIntAdaptee_add(self, x) ==
    Outcome([self EXCEPT !.mData = Append(@, x)], NullPtr, "none", FALSE, Uninit)

\* mData[index]: undefined outside the vector.
EnforcedIntAdaptee_get(self, index) ==
    Outcome(self, NullPtr, "none", index >= Len(self.mData), At(self.mData, index))

\* get(index) = value.
EnforcedIntAdaptee_getAssign(self, index, value) ==
    Outcome([self EXCEPT !.mData = Put(@, index, value)], NullPtr, "none",
            index >= Len(self.mData), Uninit)

\* mData.erase(mData.begin() + index): undefined outside the vector.
EnforcedIntAdaptee_remove(self, index) ==
    Outcome([self EXCEPT !.mData =
                [k \in 1..(IF index < Len(@) THEN Len(@) - 1 ELSE Len(@)) |->
                    IF k - 1 < index THEN @[k] ELSE @[k + 1]]],
            NullPtr, "none", index >= Len(self.mData), Uninit)

EnforcedIntAdaptee_size(self) == Len(self.mData)

\* ------------------------------------- the Container template parameter

\* An adapter's mContainer is one of the three container types; m is the
\* container with the heaps it lives in: [c, bufs, nodes].

ContainerKinds == {"array", "linked", "enforced"}

World(c, hb, hn) == [c |-> c, bufs |-> hb, nodes |-> hn]

\* The outcome of a call on the container: the world after it, the exception,
\* undefined behaviour, the value returned.
Result(m, exc, ub, ret) == [m |-> m, exc |-> exc, ub |-> ub, ret |-> ret]

OfArray(m, r) ==
    Result(World([kind |-> "array", obj |-> r.self], r.heap, m.nodes), r.exc, r.ub, r.ret)

OfLinked(m, r) ==
    Result(World([kind |-> "linked", obj |-> r.self], m.bufs, r.heap), r.exc, r.ub, r.ret)

OfEnforced(m, r) ==
    Result(World([kind |-> "enforced", obj |-> r.self], m.bufs, m.nodes), r.exc, r.ub, r.ret)

\* Container mContainer; (the adapter's member, default constructed)
Container_ctor(kind) ==
    CASE kind = "array" ->
            LET r == ArrayList_ctor(EmptyBufs, 0, DefaultValue)
            IN World([kind |-> kind, obj |-> r.self], r.heap, EmptyNodes)
      [] kind = "linked" ->
            LET r == LinkedList_ctor(EmptyNodes)
            IN World([kind |-> kind, obj |-> r.self], EmptyBufs, r.heap)
      [] OTHER -> World([kind |-> kind, obj |-> EnforcedIntAdaptee_ctor], EmptyBufs, EmptyNodes)

Container_add(m, value) ==
    CASE m.c.kind = "array" -> OfArray(m, ArrayList_add(m.c.obj, m.bufs, value))
      [] m.c.kind = "linked" -> OfLinked(m, LinkedList_add(m.c.obj, m.nodes, value))
      [] OTHER -> OfEnforced(m, EnforcedIntAdaptee_add(m.c.obj, value))

Container_get(m, index) ==
    CASE m.c.kind = "array" -> OfArray(m, ArrayList_get(m.c.obj, m.bufs, index))
      [] m.c.kind = "linked" -> OfLinked(m, LinkedList_get(m.c.obj, m.nodes, index))
      [] OTHER -> OfEnforced(m, EnforcedIntAdaptee_get(m.c.obj, index))

Container_getAssign(m, index, value) ==
    CASE m.c.kind = "array" ->
            OfArray(m, ArrayList_getAssign(m.c.obj, m.bufs, index, value))
      [] m.c.kind = "linked" ->
            OfLinked(m, LinkedList_getAssign(m.c.obj, m.nodes, index, value))
      [] OTHER -> OfEnforced(m, EnforcedIntAdaptee_getAssign(m.c.obj, index, value))

Container_remove(m, index) ==
    CASE m.c.kind = "array" -> OfArray(m, ArrayList_remove(m.c.obj, m.bufs, index))
      [] m.c.kind = "linked" -> OfLinked(m, LinkedList_remove(m.c.obj, m.nodes, index))
      [] OTHER -> OfEnforced(m, EnforcedIntAdaptee_remove(m.c.obj, index))

Container_size(m) ==
    CASE m.c.kind = "array" -> ArrayList_size(m.c.obj)
      [] m.c.kind = "linked" -> LinkedList_size(m.c.obj)
      [] OTHER -> EnforcedIntAdaptee_size(m.c.obj)

\* The container's contents, read the way a caller can: get(0) .. get(size - 1).
Container_elems(m) ==
    [i \in 1..Container_size(m) |-> Container_get(m, i - 1).ret]

\* ---------------------------------------------------------- adapters

\* StackAdapter<Container> and QueueAdapter<Container>, with the members
\* their base classes implement.

StackAdapter_size(m) == Container_size(m)

StackBase_isEmpty(m) == StackAdapter_size(m) = 0

StackAdapter_push(m, value) == Container_add(m, value)

StackAdapter_pop(m) ==
    IF StackBase_isEmpty(m) THEN Result(m, "Underflow", FALSE, Uninit)
    ELSE Container_remove(m, Wrap(StackAdapter_size(m) - 1))

\* top() const
StackAdapter_top(m) ==
    IF StackBase_isEmpty(m) THEN Result(m, "Underflow", FALSE, Uninit)
    ELSE Container_get(m, Wrap(StackAdapter_size(m) - 1))

\* top() = value, through the reference the mutable top() returns
StackBase_topAssign(m, value) ==
    IF StackBase_isEmpty(m) THEN Result(m, "Underflow", FALSE, Uninit)
    ELSE Container_getAssign(m, Wrap(StackAdapter_size(m) - 1), value)

QueueAdapter_size(m) == Container_size(m)

QueueBase_isEmpty(m) == QueueAdapter_size(m) = 0

QueueAdapter_enqueue(m, value) == Container_add(m, value)

QueueAdapter_dequeue(m) ==
    IF QueueBase_isEmpty(m) THEN Result(m, "Underflow", FALSE, Uninit)
    ELSE Container_remove(m, 0)

\* front() const
QueueAdapter_front(m) ==
    IF QueueBase_isEmpty(m) THEN Result(m, "Underflow", FALSE, Uninit)
    ELSE Container_get(m, 0)

\* front() = value, through the reference the mutable front() returns
QueueBase_frontAssign(m, value) ==
    IF QueueBase_isEmpty(m) THEN Result(m, "Underflow", FALSE, Uninit)
    ELSE Container_getAssign(m, 0, value)

CanonWorld(m) ==
    CASE m.c.kind = "array" ->
            World([m.c EXCEPT !.obj = CanonArray(@, m.bufs)],
                  CanonBufs(m.bufs, m.c.obj.mArray), m.nodes)
      [] m.c.kind = "linked" ->
            World([m.c EXCEPT !.obj = CanonList(@, m.nodes)],
                  m.bufs, CanonNodes(m.nodes, m.c.obj.mTail))
      [] OTHER -> m

\* ------------------------------------------------- sequences: the run

\* Both sequence types receive the same calls, the way the parameterized
\* tests drive them.

Call(op, ra, rl) ==
    [op |-> op, aExc |-> ra.exc, lExc |-> rl.exc, aRet |-> ra.ret, lRet |-> rl.ret]

NoCall ==
    [op |-> "init", aExc |-> "none", lExc |-> "none", aRet |-> Uninit, lRet |-> Uninit]

NoContainer == [kind |-> "none"]

AdapterIdle ==
    UNCHANGED <<adapter, mContainer, pending, nIn, nOut>>

Init ==
    /\ a = ArrayList_ctor(EmptyBufs, 0, DefaultValue).self
    /\ bufs = ArrayList_ctor(EmptyBufs, 0, DefaultValue).heap
    /\ l = LinkedList_ctor(EmptyNodes).self
    /\ nodes = LinkedList_ctor(EmptyNodes).heap
    /\ a2 = NoArray
    /\ l2 = NoList
    /\ status = "ok"
    /\ last = NoCall
    /\ adapter = "none"
    /\ mContainer = NoContainer
    /\ pending = <<>>
    /\ nIn = 0
    /\ nOut = 0

\* What undefined behaviour makes of a run: it is killed, or the call returns
\* with whatever its in-bounds writes produced. Nothing is explored past either.
AfterCall(ub) == IF ub THEN {"crashed", "corrupt"} ELSE {"ok"}

\* The calls take effect.
Commit(op, ra, rl) ==
    /\ status = "ok"
    /\ last' = Call(op, ra, rl)
    /\ status' \in AfterCall(ra.ub \/ rl.ub)
    /\ a' = IF status' = "crashed" THEN a ELSE CanonArray(ra.self, ra.heap)
    /\ bufs' = IF status' = "crashed" THEN bufs ELSE CanonBufs(ra.heap, ra.self.mArray)
    /\ l' = IF status' = "crashed" THEN l ELSE CanonList(rl.self, rl.heap)
    /\ nodes' = IF status' = "crashed" THEN nodes ELSE CanonNodes(rl.heap, rl.self.mTail)
    /\ UNCHANGED <<a2, l2>>
    /\ AdapterIdle

\* The memory the run has: a sequence never grows beyond MaxLen elements.
Fits(newSize) == newSize <= MaxLen

AddCall(v) ==
    /\ Fits(a.mSize + 1) /\ Fits(l.mSize + 1)
    /\ Commit("add", ArrayList_add(a, bufs, v), LinkedList_add(l, nodes, v))

AddAtCall(i, v) ==
    /\ i > MaxLen \/ (Fits(Max(i, a.mSize) + 1) /\ Fits(Max(i, l.mSize) + 1))
    /\ Commit("addAt", ArrayList_addAt(a, bufs, i, v), LinkedList_addAt(l, nodes, i, v))

GetCall(i) ==
    Commit("get", ArrayList_get(a, bufs, i), LinkedList_get(l, nodes, i))

SetCall(i, v) ==
    Commit("set", ArrayList_set(a, bufs, i, v), LinkedList_set(l, nodes, i, v))

RemoveCall(i) ==
    Commit("remove", ArrayList_remove(a, bufs, i), LinkedList_remove(l, nodes, i))

Add == \E v \in Values : AddCall(v)

AddAt == \E i \in Indices, v \in Values : AddAtCall(i, v)

Get == \E i \in Indices : GetCall(i)

Set == \E i \in Indices, v \in Values : SetCall(i, v)

Remove == \E i \in Indices : RemoveCall(i)

ClearCall ==
    Commit("clear", ArrayList_clear(a, bufs), LinkedList_clear(l, nodes))

\* The LinkedList when a call reaches the ArrayList alone.
NotCalled == Outcome(l, nodes, "none", FALSE, Uninit)

\* Calls on the ArrayList in which a step throws.
AddThrowsCall(step) ==
    /\ a.mSize >= a.mCapacity /\ step <= a.mSize
    /\ Commit("addThrows", ArrayList_addThrows(a, bufs, step), NotCalled)

AddAtThrowsCall(i, step) ==
    /\ Fits(Max(i, a.mSize) + 1) /\ step <= Max(i, a.mSize) + 1
    /\ Commit("addAtThrows", ArrayList_addAtThrows(a, bufs, i, step), NotCalled)

RemoveThrowsCall(i, step) ==
    /\ i + 1 < a.mSize /\ step + 1 <= a.mSize
    /\ Commit("removeThrows", ArrayList_removeThrows(a, bufs, i, step), NotCalled)

\* The ArrayList when a call reaches the LinkedList alone.
ArrayNotCalled == Outcome(a, bufs, "none", FALSE, Uninit)

\* Calls on the LinkedList in which a step throws.
ListAddThrowsCall(step) ==
    /\ step <= 1
    /\ Commit("listAddThrows", ArrayNotCalled, LinkedList_addThrows(l, nodes, step))

ListAddAtThrowsCall(i, step) ==
    /\ Fits(Max(i, l.mSize) + 1)
    /\ step <= IF i < l.mSize THEN 1 ELSE i - l.mSize + 1
    /\ Commit("listAddAtThrows", ArrayNotCalled, LinkedList_addAtThrows(l, nodes, i, step))

ListSetThrowsCall(i, step) ==
    /\ i < l.mSize /\ step <= 1
    /\ Commit("listSetThrows", ArrayNotCalled, LinkedList_setThrows(l, nodes, i, step))

Steps == 0..(MaxLen + 1)

AddThrows == \E step \in Steps : AddThrowsCall(step)

AddAtThrows == \E i \in 0..MaxLen, step \in Steps : AddAtThrowsCall(i, step)

RemoveThrows == \E i \in 0..MaxLen, step \in Steps : RemoveThrowsCall(i, step)

ListAddThrows == \E step \in Steps : ListAddThrowsCall(step)

ListAddAtThrows == \E i \in 0..MaxLen, step \in Steps : ListAddAtThrowsCall(i, step)

ListSetThrows == \E i \in 0..MaxLen, step \in Steps : ListSetThrowsCall(i, step)

Next ==
    \/ Add \/ AddAt \/ Get \/ Set \/ Remove
    \/ ClearCall \/ AddThrows \/ AddAtThrows \/ RemoveThrows
    \/ ListAddThrows \/ ListAddAtThrows \/ ListSetThrows

Spec == Init /\ [][Next]_vars

\* ---------------------------------------------------- copies: the run

\* Two objects of each sequence type in one heap: the first (who = 1) is
\* built by calls, the second (who = 2) comes from it by copy construction
\* and either is assigned from the other. Both types receive the same calls.

Present == a2.mArray # NullPtr /\ l2.mTail # NullPtr

\* Addresses up to renaming, with two owners.
BufOrder2(h, r1, r2) ==
    LET head == IF r2 = NullPtr \/ r2 = r1 THEN <<r1>> ELSE <<r1, r2>>
    IN head \o Sorted(h.live \ Range(head)) \o Sorted(BufIds \ (h.live \cup Range(head)))

NodeOrder2(h, r1, r2) ==
    LET c1 == Chain(h, r1, <<>>)
        c == IF r2 = NullPtr THEN c1 ELSE Chain(h, r2, c1)
    IN c \o Sorted(h.live \ Range(c)) \o Sorted(NodeIds \ (h.live \cup Range(c)))

PosOrNull(order, p) == IF p = NullPtr THEN NullPtr ELSE Pos(order, p)

CanonBufs2(h, r1, r2) ==
    LET o == BufOrder2(h, r1, r2)
    IN [live |-> {k \in BufIds : o[k] \in h.live},
        data |-> [k \in BufIds |-> h.data[o[k]]]]

CanonNodes2(h, r1, r2) ==
    LET o == NodeOrder2(h, r1, r2)
    IN [live |-> {k \in NodeIds : o[k] \in h.live},
        item |-> [k \in NodeIds |-> h.item[o[k]]],
        prev |-> [k \in NodeIds |-> Pos(o, h.prev[o[k]])],
        next |-> [k \in NodeIds |-> Pos(o, h.next[o[k]])]]

\* What a call leaves of the two objects: the first, the second, the heap.
Pair(first, second, r) ==
    [first |-> first, second |-> second, heap |-> r.heap,
     exc |-> r.exc, ub |-> r.ub, ret |-> r.ret]

\* The object a call is made on and the other one.
ThisArray(who) == IF who = 1 THEN a ELSE a2

OtherArray(who) == IF who = 1 THEN a2 ELSE a

ThisList(who) == IF who = 1 THEN l ELSE l2

OtherList(who) == IF who = 1 THEN l2 ELSE l

\* A call on object who: its result is the new state of that object.
OnArray(who, r) == IF who = 1 THEN Pair(r.self, a2, r) ELSE Pair(a, r.self, r)

OnList(who, r) == IF who = 1 THEN Pair(r.self, l2, r) ELSE Pair(l, r.self, r)

InitCopy ==
    /\ a = ArrayList_ctor(EmptyBufs, 0, DefaultValue).self
    /\ bufs = ArrayList_ctor(EmptyBufs, 0, DefaultValue).heap
    /\ l = LinkedList_ctor(EmptyNodes).self
    /\ nodes = LinkedList_ctor(EmptyNodes).heap
    /\ a2 = NoArray
    /\ l2 = NoList
    /\ status = "ok"
    /\ last = [op |-> "init", who |-> 0, aRet |-> Uninit, lRet |-> Uninit]
    /\ adapter = "none"
    /\ mContainer = NoContainer
    /\ pending = <<>>
    /\ nIn = 0
    /\ nOut = 0

\* The calls take effect. The record of the last call keeps its kind (the
\* five calls that change one sequence are one kind, "mutation"), the object
\* it was made on, and of the values returned only the answer of operator==
\* and the number of passes of a destructor's loop.
CopyCommit(op, who, pa, pl) ==
    /\ status = "ok"
    /\ last' = [op |-> op, who |-> who,
                aRet |-> IF op = "equals" THEN pa.ret ELSE Uninit,
                lRet |-> IF op \in {"equals", "destroy"} THEN pl.ret ELSE Uninit]
    /\ status' \in AfterCall(pa.ub \/ pl.ub)
    /\ IF status' = "crashed" THEN UNCHANGED <<a, a2, bufs, l, l2, nodes>>
       ELSE /\ a' = [pa.first EXCEPT !.mArray =
                        Pos(BufOrder2(pa.heap, pa.first.mArray, pa.second.mArray), @)]
            /\ a2' = [pa.second EXCEPT !.mArray =
                        PosOrNull(BufOrder2(pa.heap, pa.first.mArray, pa.second.mArray), @)]
            /\ bufs' = CanonBufs2(pa.heap, pa.first.mArray, pa.second.mArray)
            /\ l' = [pl.first EXCEPT !.mTail =
                        Pos(NodeOrder2(pl.heap, pl.first.mTail, pl.second.mTail), @)]
            /\ l2' = [pl.second EXCEPT !.mTail =
                        PosOrNull(NodeOrder2(pl.heap, pl.first.mTail, pl.second.mTail), @)]
            /\ nodes' = CanonNodes2(pl.heap, pl.first.mTail, pl.second.mTail)
    /\ AdapterIdle

Who == {1, 2}

\* With two objects of each type the sequences are kept one shorter.
CopyLen == MaxLen - 1

FitsCopy(newSize) == newSize <= CopyLen

\* Object who exists.
Built(who) == who = 1 \/ Present

CopyAddCall(who, v) ==
    /\ Built(who) /\ FitsCopy(ThisArray(who).mSize + 1)
    /\ CopyCommit("mutation", who,
                  OnArray(who, ArrayList_add(ThisArray(who), bufs, v)),
                  OnList(who, LinkedList_add(ThisList(who), nodes, v)))

CopyAddAtCall(who, i, v) ==
    /\ Built(who) /\ FitsCopy(Max(i, ThisArray(who).mSize) + 1)
    /\ CopyCommit("mutation", who,
                  OnArray(who, ArrayList_addAt(ThisArray(who), bufs, i, v)),
                  OnList(who, LinkedList_addAt(ThisList(who), nodes, i, v)))

CopySetCall(who, i, v) ==
    /\ Built(who)
    /\ CopyCommit("mutation", who,
                  OnArray(who, ArrayList_set(ThisArray(who), bufs, i, v)),
                  OnList(who, LinkedList_set(ThisList(who), nodes, i, v)))

CopyRemoveCall(who, i) ==
    /\ Built(who)
    /\ CopyCommit("mutation", who,
                  OnArray(who, ArrayList_remove(ThisArray(who), bufs, i)),
                  OnList(who, LinkedList_remove(ThisList(who), nodes, i)))

CopyClearCall(who) ==
    /\ Built(who)
    /\ CopyCommit("mutation", who,
                  OnArray(who, ArrayList_clear(ThisArray(who), bufs)),
                  OnList(who, LinkedList_clear(ThisList(who), nodes)))

\* ArrayList<T> second(first); LinkedList<T> second(first);
ConstructCall ==
    /\ ~Present
    /\ CopyCommit("copy", 2,
                  OnArray(2, ArrayList_copy(bufs, a)),
                  OnList(2, LinkedList_copy(nodes, l)))

\* The second objects go out of scope; of the LinkedList the number of nodes
\* its destructor's loop removed is kept.
DestroyCall ==
    /\ Present
    /\ CopyCommit("destroy", 2,
                  Pair(a, NoArray, Outcome(a2, ArrayList_dtor(a2, bufs), "none", FALSE, Uninit)),
                  Pair(l, NoList,
                       Outcome(l2, LinkedList_dtorRun(l2, nodes, <<>>).heap, "none", FALSE,
                               Len(LinkedList_dtorRun(l2, nodes, <<>>).freed) - 1)))

\* object who = the other object
AssignCall(who) ==
    /\ Present
    /\ CopyCommit("assign", who,
                  OnArray(who, ArrayList_assign(ThisArray(who), bufs, OtherArray(who), FALSE)),
                  OnList(who, LinkedList_assign(ThisList(who), nodes, OtherList(who), FALSE)))

\* object who = the other object, and building the copy fails: in the
\* ArrayList at the last of its steps when it has fewer.
AssignThrowsCall(who, step) ==
    /\ Present /\ step <= OtherList(who).mSize + 1
    /\ CopyCommit("assignThrows", who,
                  OnArray(who, ArrayList_assignThrows(ThisArray(who), bufs, OtherArray(who),
                                                     Min(step, OtherArray(who).mSize))),
                  OnList(who, LinkedList_assignThrows(ThisList(who), nodes,
                                                     OtherList(who), step)))

\* object who = object who
SelfAssignCall(who) ==
    /\ Built(who)
    /\ CopyCommit("selfAssign", who,
                  OnArray(who, ArrayList_assign(ThisArray(who), bufs, ThisArray(who), TRUE)),
                  OnList(who, LinkedList_assign(ThisList(who), nodes, ThisList(who), TRUE)))

Bool(b) == IF b THEN 1 ELSE 0

\* first == second
EqualsCall ==
    /\ Present
    /\ CopyCommit("equals", 1,
                  Pair(a, a2, Outcome(a, bufs, "none", FALSE,
                                      Bool(ArrayList_equals(a, bufs, a2)))),
                  Pair(l, l2, Outcome(l, nodes, "none", FALSE,
                                      Bool(LinkedList_equals(l, nodes, l2)))))

CopyAdd == \E who \in Who, v \in Values : CopyAddCall(who, v)

CopyAddAt == \E who \in Who, i \in 0..(CopyLen - 1), v \in Values : CopyAddAtCall(who, i, v)

CopySet == \E who \in Who, i \in 0..(CopyLen - 1), v \in Values : CopySetCall(who, i, v)

CopyRemove == \E who \in Who, i \in 0..(CopyLen - 1) : CopyRemoveCall(who, i)

CopyClear == \E who \in Who : CopyClearCall(who)

Assign == \E who \in Who : AssignCall(who)

SelfAssign == SelfAssignCall(1)

AssignThrows == \E who \in Who, step \in 0..(CopyLen + 1) : AssignThrowsCall(who, step)

NextCopy ==
    \/ CopyAdd \/ CopyAddAt \/ CopySet \/ CopyRemove \/ CopyClear
    \/ ConstructCall \/ DestroyCall \/ Assign \/ SelfAssign \/ EqualsCall
    \/ AssignThrows

SpecCopy == InitCopy /\ [][NextCopy]_vars

\* -------------------------------------------------- adapters: the run

\* One adapter over one container type per run, as each parameterized test
\* builds it.

M == World(mContainer, bufs, nodes)

InitAdapter ==
    /\ adapter \in {"stack", "queue"}
    /\ \E kind \in ContainerKinds :
        /\ mContainer = Container_ctor(kind).c
        /\ bufs = Container_ctor(kind).bufs
        /\ nodes = Container_ctor(kind).nodes
    /\ a = NoContainer
    /\ l = NoContainer
    /\ a2 = NoArray
    /\ l2 = NoList
    /\ status = "ok"
    /\ last = [op |-> "init", exc |-> "none", ret |-> Uninit]
    /\ pending = <<>>
    /\ nIn = 0
    /\ nOut = 0

\* The call takes effect; the bookkeeping of what went in and out follows
\* the calls that returned.
AdapterCommit(op, r, newPending, dIn, dOut) ==
    /\ status = "ok"
    /\ last' = [op |-> op, exc |-> r.exc, ret |-> r.ret]
    /\ status' \in AfterCall(r.ub)
    /\ mContainer' = IF status' = "crashed" THEN mContainer ELSE CanonWorld(r.m).c
    /\ bufs' = IF status' = "crashed" THEN bufs ELSE CanonWorld(r.m).bufs
    /\ nodes' = IF status' = "crashed" THEN nodes ELSE CanonWorld(r.m).nodes
    /\ pending' = IF r.exc = "none" THEN newPending ELSE pending
    /\ nIn' = IF r.exc = "none" THEN nIn + dIn ELSE nIn
    /\ nOut' = IF r.exc = "none" THEN nOut + dOut ELSE nOut
    /\ UNCHANGED <<a, l, a2, l2, adapter>>

Front(s) == SubSeq(s, 1, Len(s) - 1)

ReplaceAt(s, k, v) == [j \in 1..Len(s) |-> IF j = k THEN v ELSE s[j]]

PushCall(v) ==
    /\ adapter = "stack"
    /\ nIn < MaxOps /\ Fits(Len(pending) + 1)
    /\ AdapterCommit("push", StackAdapter_push(M, v), Append(pending, v), 1, 0)

PopCall ==
    /\ adapter = "stack"
    /\ AdapterCommit("pop", StackAdapter_pop(M), Front(pending), 0, 1)

TopCall ==
    /\ adapter = "stack"
    /\ AdapterCommit("top", StackAdapter_top(M), pending, 0, 0)

TopAssignCall(v) ==
    /\ adapter = "stack"
    /\ AdapterCommit("topAssign", StackBase_topAssign(M, v),
                     ReplaceAt(pending, Len(pending), v), 0, 0)

EnqueueCall(v) ==
    /\ adapter = "queue"
    /\ nIn < MaxOps /\ Fits(Len(pending) + 1)
    /\ AdapterCommit("enqueue", QueueAdapter_enqueue(M, v), Append(pending, v), 1, 0)

DequeueCall ==
    /\ adapter = "queue"
    /\ AdapterCommit("dequeue", QueueAdapter_dequeue(M), Tail(pending), 0, 1)

FrontCall ==
    /\ adapter = "queue"
    /\ AdapterCommit("front", QueueAdapter_front(M), pending, 0, 0)

FrontAssignCall(v) ==
    /\ adapter = "queue"
    /\ AdapterCommit("frontAssign", QueueBase_frontAssign(M, v),
                     ReplaceAt(pending, 1, v), 0, 0)

Push == \E v \in Values : PushCall(v)

TopAssign == \E v \in Values : TopAssignCall(v)

Enqueue == \E v \in Values : EnqueueCall(v)

FrontAssign == \E v \in Values : FrontAssignCall(v)

NextAdapter ==
    \/ Push \/ PopCall \/ TopCall \/ TopAssign
    \/ Enqueue \/ DequeueCall \/ FrontCall \/ FrontAssign

SpecAdapter == InitAdapter /\ [][NextAdapter]_vars

\* --------------------------------------------- sequences: properties

\* get(j) of each sequence before and after a call, as a caller reads it.
aAt(j) == ArrayList_get(a, bufs, j).ret

aAtNext(j) == ArrayList_get(a', bufs', j).ret

lAt(j) == LinkedList_get(l, nodes, j).ret

lAtNext(j) == LinkedList_get(l', nodes', j).ret

Returned == status' = "ok" /\ last'.aExc = "none" /\ last'.lExc = "none"

RangeChecked(i) ==
    /\ status' = "ok"
    /\ i >= a.mSize => last'.aExc = "out_of_range" /\ a' = a /\ bufs' = bufs
    /\ i >= l.mSize => last'.lExc = "out_of_range" /\ l' = l /\ nodes' = nodes

\* C6: get(i), set(i, v) and remove(i) with i >= size() throw
\* std::out_of_range and change nothing: the ArrayList keeps its size,
\* capacity, buffer and elements, the LinkedList its size and node chain.
C6_OutOfRangeBeforeMutation ==
    [][\A i \in Indices :
        (\/ last'.op = "get" /\ GetCall(i)
         \/ last'.op = "remove" /\ RemoveCall(i)
         \/ last'.op = "set" /\ \E v \in Values : SetCall(i, v))
            => RangeChecked(i)]_vars

\* C6 happens: a remove beyond the end of non-empty sequences was refused.
C6_Witness ==
    /\ last.op = "remove"
    /\ last.aExc = "out_of_range" /\ last.lExc = "out_of_range"
    /\ a.mSize = 2 /\ l.mSize = 2

SetPost(i, v) ==
    /\ Returned
    /\ aAtNext(i) = v /\ lAtNext(i) = v
    /\ a'.mSize = a.mSize /\ l'.mSize = l.mSize
    /\ \A j \in 0..(a.mSize - 1) : j # i => aAtNext(j) = aAt(j)
    /\ \A j \in 0..(l.mSize - 1) : j # i => lAtNext(j) = lAt(j)

\* C7: for i < size(), after set(i, v) get(i) returns v, size() is what it was
\* and get(j) is what it was for every j # i, in both sequence types.
C7_SetThenGet ==
    [][\A i \in Indices, v \in Values :
        (last'.op = "set" /\ i < a.mSize /\ i < l.mSize /\ SetCall(i, v))
            => SetPost(i, v)]_vars

\* C7 happens: a set replaced the middle element of full sequences by a
\* value other than its neighbours'.
C7_Witness ==
    /\ last.op = "set" /\ last.aExc = "none" /\ last.lExc = "none"
    /\ a.mSize = MaxLen /\ l.mSize = MaxLen
    /\ ArrayList_get(a, bufs, 1).ret # ArrayList_get(a, bufs, 0).ret
    /\ LinkedList_get(l, nodes, 1).ret # LinkedList_get(l, nodes, 2).ret

AddPost(v) ==
    /\ Returned
    /\ a'.mSize = a.mSize + 1 /\ l'.mSize = l.mSize + 1
    /\ aAtNext(a'.mSize - 1) = v /\ lAtNext(l'.mSize - 1) = v
    /\ \A j \in 0..(a.mSize - 1) : aAtNext(j) = aAt(j)
    /\ \A j \in 0..(l.mSize - 1) : lAtNext(j) = lAt(j)

\* C8: add(v) raises size() by exactly 1, get(size() - 1) is v afterwards and
\* every element that was at an index j below the old size is still at j, in
\* both sequence types.
C8_AddAppends ==
    [][\A v \in Values : (last'.op = "add" /\ AddCall(v)) => AddPost(v)]_vars

\* C8 happens: an add that had to grow the array's buffer (two elements in a
\* buffer of two slots) appended a third element.
C8_Witness ==
    /\ last.op = "add" /\ status = "ok"
    /\ a.mSize = 3 /\ l.mSize = 3 /\ a.mCapacity = 6
    /\ ArrayList_get(a, bufs, 0).ret # ArrayList_get(a, bufs, 2).ret

RemovePost(i) ==
    /\ Returned
    /\ a'.mSize = a.mSize - 1 /\ l'.mSize = l.mSize - 1
    /\ last'.aRet = aAt(i)
    /\ \A j \in 0..(a.mSize - 1) :
        /\ j < i => aAtNext(j) = aAt(j)
        /\ j > i => aAtNext(j - 1) = aAt(j)
    /\ \A j \in 0..(l.mSize - 1) :
        /\ j < i => lAtNext(j) = lAt(j)
        /\ j > i => lAtNext(j - 1) = lAt(j)

\* C9: remove(i) with i < size() leaves size() - 1 elements, those before i
\* where they were and those after i one index lower, in both sequence types;
\* the ArrayList returns the element that was at i.
C9_RemoveShifts ==
    [][\A i \in Indices :
        (last'.op = "remove" /\ i < a.mSize /\ i < l.mSize /\ RemoveCall(i))
            => RemovePost(i)]_vars

\* C9 happens: a remove took an element out of full sequences and returned
\* a value that differs from the one now first.
C9_Witness ==
    /\ last.op = "remove" /\ last.aExc = "none" /\ last.lExc = "none"
    /\ a.mSize = MaxLen - 1 /\ l.mSize = MaxLen - 1
    /\ last.aRet # ArrayList_get(a, bufs, 0).ret

AddAtPost(i, v) ==
    /\ status' = "ok"
    /\ last'.aExc = "none" =>
        /\ a'.mSize = Max(i, a.mSize) + 1
        /\ aAtNext(i) = v
        /\ \A j \in 0..(a.mSize - 1) :
            /\ j < i => aAtNext(j) = aAt(j)
            /\ j >= i => aAtNext(j + 1) = aAt(j)
        /\ \A j \in a.mSize..(i - 1) : aAtNext(j) = DefaultValue
    /\ last'.lExc = "none" =>
        /\ l'.mSize = Max(i, l.mSize) + 1
        /\ lAtNext(i) = v
        /\ \A j \in 0..(l.mSize - 1) :
            /\ j < i => lAtNext(j) = lAt(j)
            /\ j >= i => lAtNext(j + 1) = lAt(j)
        /\ \A j \in l.mSize..(i - 1) : lAtNext(j) = DefaultValue

\* C10: for every index, inside or beyond the current size, an add(index,
\* value) that returns leaves size max(index, old size) + 1, the elements
\* below min(index, old size) where they were, value at index, the old
\* elements from index on one position higher and default values in the
\* positions from the old size up to index, in both sequence types.
C10_AddAtEveryIndex ==
    [][\A i \in Indices, v \in Values :
        (last'.op = "addAt" /\ AddAtCall(i, v)) => AddAtPost(i, v)]_vars

\* The same for the indices whose new size and capacity fit the index type.
AddAtSmallIndex ==
    [][\A i \in 0..MaxLen, v \in Values :
        (last'.op = "addAt" /\ AddAtCall(i, v)) => AddAtPost(i, v)]_vars

\* ---------------------------------------------- adapters: properties

MNext == World(mContainer', bufs', nodes')

\* C1: after any sequence of successful push and pop calls, top() is the
\* most recently pushed element not yet popped, over every container type
\* (so popping n times after pushing v1..vn shows vn..v1).
C1_StackLifo ==
    (adapter = "stack" /\ status = "ok" /\ pending # <<>>) =>
        /\ StackAdapter_top(M).exc = "none"
        /\ ~StackAdapter_top(M).ub
        /\ StackAdapter_top(M).ret = pending[Len(pending)]

\* C1 happens: pushes and pops interleaved, the last call a pop that
\* uncovered an element other than the one below it.
C1_Witness ==
    /\ adapter = "stack" /\ last.op = "pop" /\ last.exc = "none"
    /\ nIn = MaxOps /\ Len(pending) = 2 /\ pending[2] # pending[1]

\* C2: after any sequence of successful enqueue and dequeue calls, front() is
\* the oldest enqueued element not yet dequeued, over every container type
\* (so dequeuing n times after enqueueing v1..vn shows v1..vn).
C2_QueueFifo ==
    (adapter = "queue" /\ status = "ok" /\ pending # <<>>) =>
        /\ QueueAdapter_front(M).exc = "none"
        /\ ~QueueAdapter_front(M).ub
        /\ QueueAdapter_front(M).ret = pending[1]

\* C2 happens: enqueues and dequeues interleaved, the last call a dequeue
\* that uncovered an element other than the one behind it.
C2_Witness ==
    /\ adapter = "queue" /\ last.op = "dequeue" /\ last.exc = "none"
    /\ nIn = MaxOps /\ Len(pending) = 2 /\ pending[1] # pending[2]

OnEmpty ==
    \/ PopCall \/ TopCall \/ TopAssign
    \/ DequeueCall \/ FrontCall \/ FrontAssign

\* C3: on an adapter that is empty (as many removals as insertions), pop,
\* top, dequeue and front throw Underflow: not the container's out_of_range,
\* and without reading or removing an element of the empty container, also
\* when the container checks no bounds itself; the adapter stays empty.
C3_UnderflowOnEmpty ==
    [][(nIn = nOut /\ OnEmpty) =>
        /\ last'.exc = "Underflow"
        /\ status' = "ok"
        /\ mContainer' = mContainer /\ bufs' = bufs /\ nodes' = nodes
        /\ Container_size(MNext) = 0]_vars

\* C3 happens: a stack over the unchecked container, emptied again after
\* pushes, refused a pop.
C3_Witness ==
    /\ adapter = "stack" /\ mContainer.kind = "enforced"
    /\ last.op = "pop" /\ last.exc = "Underflow"
    /\ nIn = nOut /\ nIn > 1

IsEmpty(m) == IF adapter = "stack" THEN StackBase_isEmpty(m) ELSE QueueBase_isEmpty(m)

Size(m) == IF adapter = "stack" THEN StackAdapter_size(m) ELSE QueueAdapter_size(m)

\* C4: size() is the number of successful push/enqueue calls minus the number
\* of successful pop/dequeue calls, isEmpty() is true exactly when size() is
\* 0, each push/enqueue raises size() by 1 and each successful pop/dequeue
\* lowers it by 1.
C4_SizeCounts ==
    /\ [](status = "ok" =>
            /\ Size(M) = nIn - nOut
            /\ IsEmpty(M) <=> (Size(M) = 0))
    /\ [][/\ (Push \/ Enqueue) => status' = "ok" /\ Size(MNext) = Size(M) + 1
          /\ ((PopCall \/ DequeueCall) /\ last'.exc = "none") =>
                status' = "ok" /\ Size(MNext) = Size(M) - 1]_vars

\* C4 happens: a queue over the ArrayList holds one element after MaxOps
\* enqueues, the last call a dequeue.
C4_Witness ==
    /\ adapter = "queue" /\ mContainer.kind = "array"
    /\ last.op = "dequeue" /\ last.exc = "none"
    /\ nIn = MaxOps /\ nOut = MaxOps - 1 /\ Container_size(M) = 1

AssignPost(v, k, read, remove, rest) ==
    /\ status' = "ok" /\ last'.exc = "none"
    /\ read.exc = "none" /\ read.ret = v
    /\ Size(MNext) = Size(M)
    /\ Container_elems(MNext) = ReplaceAt(Container_elems(M), k, v)
    /\ remove.exc = "none" /\ ~remove.ub
    /\ Container_elems(remove.m) = rest

\* C5: assigning v through the mutable top() or front() makes the read-only
\* top()/front() return v, changes no other element and leaves size() as it
\* was, and the next pop/dequeue removes exactly that element.
C5_AssignThroughReference ==
    [][\A v \in Values :
        /\ (pending # <<>> /\ TopAssignCall(v)) =>
                AssignPost(v, Len(pending), StackAdapter_top(MNext),
                           StackAdapter_pop(MNext), Front(Container_elems(M)))
        /\ (pending # <<>> /\ FrontAssignCall(v)) =>
                AssignPost(v, 1, QueueAdapter_front(MNext),
                           QueueAdapter_dequeue(MNext), Tail(Container_elems(M)))]_vars

\* C5 happens: the front of a full queue was assigned a value other than the
\* one behind it.
C5_Witness ==
    /\ adapter = "queue" /\ last.op = "frontAssign" /\ last.exc = "none"
    /\ Len(pending) = MaxLen /\ pending[1] # pending[2]

\* ------------------------------------- sequences: capacity and failures

\* C13: in every reachable state of the ArrayList size <= capacity, and every
\* index in [0, size) is a slot of the buffer the list owns.
C13_SizeWithinCapacity ==
    /\ a.mSize <= a.mCapacity
    /\ a.mArray \in bufs.live
    /\ \A i \in 0..(a.mSize - 1) : i < Len(ArrayList_buf(a, bufs))

\* The same for the runs in which no call wrote outside a buffer.
SizeWithinCapacityUnlessUB == status = "ok" => C13_SizeWithinCapacity

ClearPost ==
    /\ Returned
    /\ ArrayList_size(a') = 0 /\ ArrayList_isEmpty(a') /\ a'.mCapacity = 0
    /\ LinkedList_size(l') = 0 /\ LinkedList_isEmpty(l')
    /\ nodes'.live = {l'.mTail}
    /\ nodes'.next[l'.mTail] = l'.mTail /\ nodes'.prev[l'.mTail] = l'.mTail
    \* the state a default constructor leaves
    /\ a' = ArrayList_ctor(EmptyBufs, 0, DefaultValue).self
    /\ bufs' = ArrayList_ctor(EmptyBufs, 0, DefaultValue).heap
    /\ l' = LinkedList_ctor(EmptyNodes).self
    /\ nodes' = LinkedList_ctor(EmptyNodes).heap
    \* a second clear() returns and leaves the same state
    /\ LET c == ArrayList_clear(a', bufs')
       IN /\ c.exc = "none" /\ ~c.ub
          /\ CanonArray(c.self, c.heap) = a'
          /\ CanonBufs(c.heap, c.self.mArray) = bufs'
    /\ LET c == LinkedList_clear(l', nodes')
       IN /\ c.exc = "none" /\ ~c.ub
          /\ CanonList(c.self, c.heap) = l'
          /\ CanonNodes(c.heap, c.self.mTail) = nodes'
    \* add works afterwards
    /\ \A v \in Values :
        /\ LET r == ArrayList_add(a', bufs', v)
           IN r.exc = "none" /\ ~r.ub /\ ArrayList_elems(r.self, r.heap) = <<v>>
        /\ LET r == LinkedList_add(l', nodes', v)
           IN r.exc = "none" /\ ~r.ub /\ LinkedList_elems(r.self, r.heap) = <<v>>

\* C15: clear() leaves either sequence as a default constructor does (size 0,
\* isEmpty(), array capacity 0, a self-linked dummy node and nothing else); a
\* second clear() returns and leaves the same state, and add works afterwards.
C15_ClearResets == [][(last'.op = "clear" /\ ClearCall) => ClearPost]_vars

\* C15 happens: clear() was called and the sequences are empty; the state is
\* the one a clear() of full sequences and a clear() of empty ones lead to.
C15_Witness ==
    /\ last.op = "clear" /\ status = "ok"
    /\ a.mSize = 0 /\ a.mCapacity = 0 /\ l.mSize = 0

GrowthPost(v) ==
    /\ Returned
    /\ a.mSize < a.mCapacity =>
        /\ a'.mCapacity = a.mCapacity
        /\ ArrayList_add(a, bufs, v).self.mArray = a.mArray
    /\ a.mSize = a.mCapacity =>
        /\ a'.mCapacity = 2 * a.mSize + 2
        /\ a'.mCapacity = 2 * a'.mSize
    /\ ArrayList_elems(a', bufs') = Append(ArrayList_elems(a, bufs), v)

\* C16: ArrayList add(value) keeps the capacity (and the buffer) when size <
\* capacity; when size = capacity the capacity becomes 2 * old size + 2, twice
\* the new size; the old elements keep their order and value is appended.
C16_GrowthRule ==
    [][\A v \in Values : (last'.op = "add" /\ AddCall(v)) => GrowthPost(v)]_vars

\* C16 happens: an add found two elements in two slots and left three
\* elements in six slots.
C16_Witness ==
    /\ last.op = "add" /\ status = "ok"
    /\ a.mSize = 3 /\ a.mCapacity = 6
    /\ ArrayList_get(a, bufs, 0).ret # ArrayList_get(a, bufs, 1).ret

Untouched == status' = "ok" /\ last'.aExc # "none" /\ a' = a /\ bufs' = bufs

\* C17: when the allocation of the larger buffer or the copy of an element
\* into it fails in ArrayList add(value), size, capacity, buffer and elements
\* are as before the call and the new buffer is released.
C17_AddStrongSafety ==
    [][(last'.op = "addThrows" /\ AddThrows) => Untouched]_vars

\* C17 happens: the copy of an element into the larger buffer threw, with two
\* elements in two slots.
C17_Witness ==
    /\ last.op = "addThrows" /\ last.aExc = "copy_error"
    /\ a.mSize = 2 /\ a.mCapacity = 2

AddAtFresh(i, v) ==
    /\ status' = "ok" /\ last'.aExc = "none"
    /\ a'.mCapacity = 2 * (Max(i, a.mSize) + 1)
    /\ ArrayList_addAt(a, bufs, i, v).self.mArray # a.mArray
    /\ a.mArray \notin ArrayList_addAt(a, bufs, i, v).heap.live

\* C18: ArrayList add(index, value) always builds a new buffer, of capacity
\* exactly 2 * (max(index, old size) + 1), and a failure of any step before
\* the swaps leaves size, capacity and elements as before the call.
C18_AddAtFreshBuffer ==
    [][/\ \A i \in Indices, v \in Values :
            (last'.op = "addAt" /\ AddAtCall(i, v)) => AddAtFresh(i, v)
       /\ (last'.op = "addAtThrows" /\ AddAtThrows) => Untouched]_vars

\* The same for the indices whose new size and capacity fit the index type.
AddAtFreshBufferSmallIndex ==
    [][/\ \A i \in 0..MaxLen, v \in Values :
            (last'.op = "addAt" /\ AddAtCall(i, v)) => AddAtFresh(i, v)
       /\ (last'.op = "addAtThrows" /\ AddAtThrows) => Untouched]_vars

RemoveKeepsCapacity(i) ==
    LET r == ArrayList_remove(a, bufs, i)
    IN /\ Returned
       /\ a'.mCapacity = a.mCapacity
       /\ a'.mSize = a.mSize - 1
       /\ i = a.mSize - 1 => r.self.mArray = a.mArray /\ r.heap = bufs
       /\ i < a.mSize - 1 =>
            /\ r.self.mArray # a.mArray
            /\ a.mArray \notin r.heap.live
            /\ Len(r.heap.data[r.self.mArray]) = a.mCapacity

\* C19: ArrayList remove(index) never changes the capacity: for the last
\* element it only decrements size and keeps the buffer, for any other it
\* swaps in a new buffer of the same capacity; when building that buffer
\* fails, size, capacity and elements are as before the call.
C19_RemoveKeepsCapacity ==
    [][/\ \A i \in 0..MaxLen :
            (last'.op = "remove" /\ i < a.mSize /\ RemoveCall(i))
                => RemoveKeepsCapacity(i)
       /\ (last'.op = "removeThrows" /\ RemoveThrows) => Untouched]_vars

\* C19 happens: the copy into the replacement buffer threw while the first
\* of three elements was being removed.
C19_Witness ==
    /\ last.op = "removeThrows" /\ last.aExc = "copy_error"
    /\ a.mSize = 3

\* ------------------------------------------------------------- copies

\* After a copy or an assignment the two objects compare equal, hold the same
\* elements in the same order and own separate storage.
SameAsSource ==
    /\ Present' /\ status' = "ok"
    /\ ArrayList_equals(a2', bufs', a') /\ ArrayList_equals(a', bufs', a2')
    /\ ArrayList_elems(a2', bufs') = ArrayList_elems(a', bufs')
    /\ LinkedList_equals(l2', nodes', l') /\ LinkedList_equals(l', nodes', l2')
    /\ LinkedList_elems(l2', nodes') = LinkedList_elems(l', nodes')
    /\ a2'.mArray # a'.mArray
    /\ {a'.mArray, a2'.mArray} \subseteq bufs'.live
    /\ Range(Chain(nodes', l'.mTail, <<>>)) \cap Range(Chain(nodes', l2'.mTail, <<>>)) = {}

\* The object the call was not made on keeps its size, its elements, its
\* capacity and the contents of its buffer.
OtherKept(who) ==
    /\ OtherArray(who)'.mSize = OtherArray(who).mSize
    /\ OtherArray(who)'.mCapacity = OtherArray(who).mCapacity
    /\ ArrayList_buf(OtherArray(who)', bufs') = ArrayList_buf(OtherArray(who), bufs)
    /\ ArrayList_elems(OtherArray(who)', bufs') = ArrayList_elems(OtherArray(who), bufs)
    /\ OtherList(who)'.mSize = OtherList(who).mSize
    /\ LinkedList_elems(OtherList(who)', nodes') = LinkedList_elems(OtherList(who), nodes)

\* C11: copy construction and assignment give an object equal to the source
\* that shares no storage with it: the source keeps its elements through the
\* copy, and a later add, add(index), set, remove or clear on either object
\* leaves the size and the elements of the other unchanged, for both types.
C11_CopyIsIndependent ==
    [][/\ (last'.op \in {"copy", "assign"} /\ (ConstructCall \/ Assign))
            => SameAsSource
       /\ \A who \in Who :
            (last'.op \in {"assign", "mutation"} /\ last'.who = who /\ Present)
                => OtherKept(who)
       /\ (last'.op = "copy" /\ ConstructCall)
            => /\ a'.mSize = a.mSize /\ l'.mSize = l.mSize
               /\ ArrayList_elems(a', bufs') = ArrayList_elems(a, bufs)
               /\ LinkedList_elems(l', nodes') = LinkedList_elems(l, nodes)]_vars

C11_Witness ==
    /\ Present /\ last.op = "mutation" /\ last.who = 2
    /\ a.mSize = 2 /\ a2.mSize = 2
    /\ ArrayList_elems(a, bufs) # ArrayList_elems(a2, bufs)
    /\ LinkedList_elems(l, nodes) # LinkedList_elems(l2, nodes)

\* The chain of a list: every node of it is live and is the successor of its
\* predecessor and the predecessor of its successor, following next from the
\* dummy node comes back to it after exactly mSize other nodes, and the dummy
\* node is its own neighbour on both sides exactly when the list is empty.
Circular(self, h) ==
    LET c == Chain(h, self.mTail, <<>>)
    IN /\ Range(c) \subseteq h.live
       /\ c[1] = self.mTail
       /\ h.next[c[Len(c)]] = self.mTail
       /\ Len(c) = self.mSize + 1
       /\ \A n \in Range(c) : h.prev[h.next[n]] = n /\ h.next[h.prev[n]] = n
       /\ (h.next[self.mTail] = self.mTail /\ h.prev[self.mTail] = self.mTail)
            <=> self.mSize = 0
       /\ (h.next[self.mTail] = self.mTail \/ h.prev[self.mTail] = self.mTail)
            => self.mSize = 0

\* C12: in every state reached by add, add(index), set, remove, clear, copy
\* construction and assignment the chain of a linked list is circular through
\* its one dummy node.
C12_ChainIsCircular ==
    /\ Circular(l, nodes)
    /\ Present => Circular(l2, nodes)

C12_Witness ==
    /\ Present /\ last.op = "assign" /\ l.mSize = 2 /\ l2.mSize = 2
    /\ Circular(l, nodes) /\ Circular(l2, nodes)

\* The same size and, at every index, the same element as get returns it.
SameArrayElements ==
    /\ ArrayList_size(a) = ArrayList_size(a2)
    /\ \A i \in 0..(ArrayList_size(a) - 1) :
            ArrayList_get(a, bufs, i).ret = ArrayList_get(a2, bufs, i).ret

SameListElements ==
    /\ LinkedList_size(l) = LinkedList_size(l2)
    /\ \A i \in 0..(LinkedList_size(l) - 1) :
            LinkedList_get(l, nodes, i).ret = LinkedList_get(l2, nodes, i).ret

\* C14: operator== answers true exactly when the two sequences have the same
\* size and equal elements at every index, whatever their capacities and the
\* slots beyond the size hold; sequences of different sizes are unequal even
\* when one is a prefix of the other. Both types.
C14_EqualityIsElementwise ==
    [][(last'.op = "equals" /\ EqualsCall)
        => /\ last'.aRet = Bool(SameArrayElements)
           /\ last'.lRet = Bool(SameListElements)
           /\ a.mSize # a2.mSize => last'.aRet = 0 /\ last'.lRet = 0
           /\ UNCHANGED <<a, a2, l, l2, bufs, nodes>>]_vars

C14_Witness ==
    /\ last.op = "equals" /\ last.aRet = 1 /\ last.lRet = 1
    /\ a.mSize = 2 /\ a.mCapacity # a2.mCapacity
    /\ ArrayList_buf(a, bufs) # ArrayList_buf(a2, bufs)

\* Unequal although one sequence is a prefix of the other.
EqualsOnPrefix ==
    /\ last.op = "equals" /\ last.aRet = 0 /\ last.lRet = 0
    /\ a.mSize = 2 /\ a2.mSize = 1
    /\ ArrayList_get(a, bufs, 0).ret = ArrayList_get(a2, bufs, 0).ret

\* The object made by the copy has the size of the source as its size and
\* as its capacity.
CopiedLogically(who) ==
    /\ ThisArray(who)'.mSize = OtherArray(who).mSize
    /\ ThisArray(who)'.mCapacity = OtherArray(who).mSize
    /\ Len(ArrayList_buf(ThisArray(who)', bufs')) = OtherArray(who).mSize

\* add(v) on the object just made moves it to a new, larger buffer.
GrowsOnAdd(who, v) ==
    /\ ThisArray(who).mSize = ThisArray(who).mCapacity
    /\ ThisArray(who)'.mCapacity = 2 * ThisArray(who).mSize + 2
    /\ ThisArray(who)'.mCapacity > ThisArray(who).mCapacity
    /\ ArrayList_add(ThisArray(who), bufs, v).self.mArray # ThisArray(who).mArray
    /\ ArrayList_elems(ThisArray(who)', bufs')
        = Append(ArrayList_elems(ThisArray(who), bufs), v)

\* C20: a copy of an array sequence, by copy construction or by assignment,
\* has the size of the source as its capacity whatever the capacity of the
\* source, and the next add(value) on the copy grows its buffer.
C20_CopyDropsCapacity ==
    [][/\ (last'.op = "copy" /\ ConstructCall) => CopiedLogically(2)
       /\ \A who \in Who :
            (last'.op = "assign" /\ last'.who = who /\ AssignCall(who))
                => CopiedLogically(who)
       /\ \A who \in Who, v \in Values :
            (/\ last.op \in {"copy", "assign"} /\ last.who = who
             /\ last'.op = "mutation" /\ last'.who = who
             /\ CopyAddCall(who, v))
                => GrowsOnAdd(who, v)]_vars

C20_Witness ==
    /\ Present /\ last.op = "mutation" /\ last.who = 2
    /\ a.mSize = 1 /\ a.mCapacity = 2
    /\ a2.mSize = 2 /\ a2.mCapacity = 4

\* The bound on the size holds for both objects through copies and
\* assignments, where no index makes the arithmetic of add(index, value) wrap.
CopySizeWithinCapacity ==
    /\ status = "ok"
    /\ C13_SizeWithinCapacity
    /\ Present =>
        /\ a2.mSize <= a2.mCapacity
        /\ a2.mArray \in bufs.live
        /\ a2.mArray # a.mArray
        /\ \A i \in 0..(a2.mSize - 1) : i < Len(ArrayList_buf(a2, bufs))

\* ------------------------------------- copies: assignment that fails

\* Nothing of either object or of the heaps has changed.
BothKept == UNCHANGED <<a, a2, l, l2, bufs, nodes>> /\ status' = "ok"

\* C21: copy assignment on both types is copy-then-swap. a = a changes
\* nothing: size, elements, capacity, the buffer and the nodes are the same.
\* When building the copy of the right-hand side fails partway, the target
\* keeps its size and elements and the partial copy is released.
C21_AssignIsCopyThenSwap ==
    [][/\ (last'.op = "selfAssign" /\ SelfAssign) => BothKept
       /\ (last'.op = "assignThrows" /\ AssignThrows) => BothKept]_vars

C21_Witness ==
    /\ Present /\ last.op = "assignThrows" /\ last.who = 1
    /\ a.mSize = 1 /\ a2.mSize = 2 /\ l.mSize = 1 /\ l2.mSize = 2
    /\ ArrayList_get(a, bufs, 0).ret # ArrayList_get(a2, bufs, 0).ret

\* ------------------------------------------ linked list: failing steps

\* The call on the LinkedList threw and left the list and every node alone.
ListUntouched ==
    /\ status' = "ok" /\ last'.lExc # "none"
    /\ l' = l /\ nodes' = nodes

\* add(v) put one new node holding v between the old last node and the dummy
\* node, and counted it.
LinkedBeforeDummy(v) ==
    LET r == LinkedList_add(l, nodes, v)
        n == FreshNode(nodes)
        oldLast == nodes.prev[l.mTail]
    IN /\ r.exc = "none" /\ status' = "ok"
       /\ r.heap.live = nodes.live \cup {n}
       /\ r.heap.item[n] = v
       /\ r.heap.prev[l.mTail] = n /\ r.heap.next[n] = l.mTail
       /\ r.heap.next[oldLast] = n /\ r.heap.prev[n] = oldLast
       /\ r.self.mSize = l.mSize + 1
       /\ l'.mSize = l.mSize + 1
       /\ nodes'.item[nodes'.prev[l'.mTail]] = v
       /\ LinkedList_elems(l', nodes') = Append(LinkedList_elems(l, nodes), v)

\* C22: add(value) on the LinkedList links the new node in immediately
\* before the dummy node and then counts it; when the construction of the
\* node fails, no link of the chain and not the size has changed.
C22_AddLinksBeforeDummy ==
    [][/\ \A v \in Values : (last'.op = "add" /\ AddCall(v)) => LinkedBeforeDummy(v)
       /\ (last'.op = "listAddThrows" /\ ListAddThrows) => ListUntouched]_vars

C22_Witness ==
    /\ last.op = "listAddThrows" /\ last.lExc = "copy_error"
    /\ l.mSize = 2 /\ status = "ok"

\* add(i, v) with i >= size: the list has i + 1 elements, the old ones first,
\* then default values, then v; the nodes added are the only new live nodes,
\* so the temporary's destructor released its dummy node and nothing else.
Spliced(i, v) ==
    /\ Returned
    /\ l'.mSize = i + 1
    /\ Circular(l', nodes')
    /\ Cardinality(nodes'.live) = Cardinality(nodes.live) + (i - l.mSize) + 1
    /\ Cardinality(nodes'.live) = l'.mSize + 1
    /\ \A k \in 0..i :
        LinkedList_get(l', nodes', k).ret =
            IF k < l.mSize THEN LinkedList_get(l, nodes, k).ret
            ELSE IF k < i THEN DefaultValue ELSE v

\* C23: add(index, value) on the LinkedList with index >= size builds the
\* new nodes in a temporary list and relinks only at the end: a failure while
\* building leaves the chain and the size unchanged and frees every node of
\* the temporary; on success the size is index + 1 and destroying the
\* emptied temporary frees none of the spliced nodes.
C23_AddAtSplices ==
    [][/\ \A i \in 0..MaxLen, v \in Values :
            (last'.op = "addAt" /\ i >= l.mSize /\ AddAtCall(i, v)) => Spliced(i, v)
       /\ (last'.op = "listAddAtThrows" /\ ListAddAtThrows) => ListUntouched]_vars

C23_Witness ==
    /\ last.op = "listAddAtThrows" /\ last.lExc = "bad_alloc"
    /\ l.mSize = 1 /\ status = "ok"
    /\ Cardinality(nodes.live) = 2

\* A splice of several nodes happened.
SplicedSeveral ==
    /\ last.op = "addAt" /\ last.lExc = "none" /\ l.mSize = MaxLen
    /\ LinkedList_get(l, nodes, 0).ret = DefaultValue + 1
    /\ LinkedList_get(l, nodes, 1).ret = DefaultValue
    /\ LinkedList_get(l, nodes, 2).ret = DefaultValue + 1

\* set(i, v), i in range, replaced the node: a new node holding v stands
\* between the old node's neighbours, the old node is gone, and the size, the
\* other elements and the number of live nodes are what they were.
Replaced(i, v) ==
    LET r == LinkedList_set(l, nodes, i, v)
        n == FreshNode(nodes)
        oldNode == advance(nodes, LinkedList_begin(l, nodes), i)
        before == nodes.prev[oldNode]
        after == nodes.next[oldNode]
    IN /\ Returned
       /\ n # oldNode /\ n \in r.heap.live /\ oldNode \notin r.heap.live
       /\ r.heap.item[n] = v
       /\ r.heap.prev[n] = before /\ r.heap.next[before] = n
       /\ r.heap.next[n] = after /\ r.heap.prev[after] = n
       /\ r.self.mSize = l.mSize
       /\ l'.mSize = l.mSize
       /\ Cardinality(nodes'.live) = Cardinality(nodes.live)
       /\ Circular(l', nodes')
       /\ \A k \in 0..(l.mSize - 1) :
            LinkedList_get(l', nodes', k).ret =
                IF k = i THEN v ELSE LinkedList_get(l, nodes, k).ret

\* C24: set(index, value) on the LinkedList replaces the node: the new node
\* is linked between the old node's neighbours, the old node is detached and
\* destroyed without disturbing those links, the size is unchanged, also
\* when both neighbours are the dummy node; when the construction of the
\* replacement fails, the node, its value, the links and the size are as
\* before.
C24_SetReplacesNode ==
    [][/\ \A i \in 0..MaxLen, v \in Values :
            (last'.op = "set" /\ i < l.mSize /\ SetCall(i, v)) => Replaced(i, v)
       /\ (last'.op = "listSetThrows" /\ ListSetThrows) => ListUntouched]_vars

C24_Witness ==
    /\ last.op = "listSetThrows" /\ last.lExc = "copy_error"
    /\ l.mSize = 1 /\ status = "ok"
    /\ nodes.next[l.mTail] = nodes.prev[l.mTail]

\* The only element was replaced: both neighbours are the dummy node.
ReplacedOnly ==
    /\ last.op = "set" /\ last.lExc = "none" /\ l.mSize = 1
    /\ LinkedList_get(l, nodes, 0).ret = DefaultValue + 1

\* ----------------------------------------------- linked list: resources

\* The destructor of list self in heap h ends by itself after size passes of
\* its loop, deletes live nodes only and none twice, these are the nodes of
\* the chain, and the dummy node is the last.
DestroysOnce(self, h) ==
    LET run == LinkedList_dtorRun(self, h, <<>>)
        n == Len(run.freed)
    IN /\ run.done
       /\ n = self.mSize + 1
       /\ run.freed[n] = self.mTail
       /\ \A i \in 1..(n - 1) : run.freed[i] # self.mTail
       /\ \A i, j \in 1..n : i # j => run.freed[i] # run.freed[j]
       /\ Range(run.freed) \subseteq h.live
       /\ Range(run.freed) = Range(Chain(h, self.mTail, <<>>))
       /\ run.heap.live = h.live \ Range(run.freed)
       /\ run.heap = LinkedList_dtor(self, h)

\* C25: destroying a LinkedList terminates: the loop that removes the head
\* while the list is not empty runs exactly size times, every node but the
\* dummy node is freed exactly once, and the dummy node last and once.
C25_DestructorFreesAll ==
    [][(last'.op = "destroy" /\ DestroyCall)
        => /\ DestroysOnce(l2, nodes)
           /\ last'.lRet = l2.mSize
           /\ Cardinality(nodes'.live) = Cardinality(nodes.live) - (l2.mSize + 1)
           /\ Cardinality(nodes'.live) = l'.mSize + 1
           /\ l2' = NoList /\ l' = l]_vars

C25_Witness ==
    /\ last.op = "destroy" /\ last.lRet = CopyLen
    /\ l.mSize = 1 /\ ~Present
    /\ Cardinality(nodes.live) = 2

\* The nodes of the chain of a list; none for a list that does not exist.
ChainOf(self) ==
    IF self.mTail = NullPtr THEN {} ELSE Range(Chain(nodes, self.mTail, <<>>))

\* C26: after any calls on the linked lists, set, the splicing add(index),
\* clear, copy, assignment and calls that fail partway among them, every
\* allocated node is in the chain of exactly one list, no node is in two
\* chains, no freed node can be reached from a dummy node, and nothing a
\* failed call built is left allocated.
C26_NodesOwnedOnce ==
    /\ ChainOf(l) \cap ChainOf(l2) = {}
    /\ nodes.live = ChainOf(l) \cup ChainOf(l2)
    /\ Cardinality(nodes.live) = (l.mSize + 1) + (IF Present THEN l2.mSize + 1 ELSE 0)
    /\ \A n \in nodes.live : nodes.next[n] \in nodes.live /\ nodes.prev[n] \in nodes.live

C26_Witness ==
    /\ Present /\ last.op = "assignThrows" /\ last.who = 2
    /\ l.mSize = 2 /\ l2.mSize = 2
    /\ Cardinality(nodes.live) = 6
    /\ C26_NodesOwnedOnce

\* ------------------------------------------------ linked list: the walk

\* C27: add(value) and the removal of the final element reach the tail
\* through the dummy node: the number of mNext links they follow does not
\* depend on the size, it is what it is on a list of one element.
C27_TailReachedDirectly ==
    [][/\ \A v \in Values :
            (last'.op = "add" /\ AddCall(v)) => LinkedList_addLinks(l, nodes, v) = 0
       /\ \A i \in 0..MaxLen :
            (last'.op = "remove" /\ i + 1 = l.mSize /\ RemoveCall(i))
                => LinkedList_removeLinks(l, nodes, i) = 1]_vars

\* What the code does: add(value) follows no link, remove(index) follows
\* index links after the one of begin().
WalksToIndex ==
    [][/\ \A v \in Values :
            (last'.op = "add" /\ AddCall(v)) => LinkedList_addLinks(l, nodes, v) = 0
       /\ \A i \in 0..MaxLen :
            (last'.op = "remove" /\ i < l.mSize /\ RemoveCall(i))
                => LinkedList_removeLinks(l, nodes, i) = i + 1]_vars

\* What an iteration over the list visits.
Visited == LinkedList_iterate(l, nodes, LinkedList_begin(l, nodes), <<>>)

\* The iteration takes size() steps and its k-th element is get(k); on an
\* empty list begin() is end().
IteratesInOrder ==
    /\ Len(Visited) = LinkedList_size(l)
    /\ \A k \in 0..(LinkedList_size(l) - 1) :
            Visited[k + 1] = LinkedList_get(l, nodes, k).ret
    /\ LinkedList_isEmpty(l) <=> LinkedList_begin(l, nodes) = LinkedList_end(l, nodes)

\* C28: iterating a LinkedList from begin() by ++ reaches end() after exactly
\* size() steps and visits the elements in index order, the k-th being
\* get(k); on an empty list begin() == end(); an iteration started again
\* with no call in between that changes the structure (a get) visits the
\* same elements.
C28_IterationInIndexOrder ==
    [][/\ IteratesInOrder /\ IteratesInOrder'
       /\ last'.op = "get" => Visited' = Visited]_vars

C28_Witness ==
    /\ last.op = "get" /\ status = "ok" /\ l.mSize = MaxLen
    /\ Visited[1] = DefaultValue + 1 /\ Visited[2] = DefaultValue
    /\ Visited[MaxLen] = DefaultValue + 1

\* ------------------------------------------- the two sequences compared

\* The last call threw std::out_of_range on both sequences or on neither,
\* and both report the same size and the same element at every index.
SameObservations ==
    /\ last.aExc = "out_of_range" <=> last.lExc = "out_of_range"
    /\ ArrayList_size(a) = LinkedList_size(l)
    /\ \A i \in 0..(ArrayList_size(a) - 1) :
        /\ ArrayList_get(a, bufs, i).exc = LinkedList_get(l, nodes, i).exc
        /\ ArrayList_get(a, bufs, i).ret = LinkedList_get(l, nodes, i).ret

\* C29: the ArrayList and the LinkedList are observationally equivalent:
\* from empty, after the same add(v), add(index, v), set(index, v),
\* remove(index) and clear() calls, each call throws std::out_of_range on
\* one exactly when it does on the other, and both report the same size()
\* and the same get(i) for every i < size().
C29_SequencesAgree == SameObservations

\* The same for the runs in which no call wrote outside a buffer.
SequencesAgreeUnlessUB == status = "ok" => SameObservations

\* The two agree on a full sequence that insertions, a replacement and a
\* removal built.
AgreeWitness ==
    /\ status = "ok" /\ last.op = "remove" /\ last.aExc = "none"
    /\ a.mSize = MaxLen - 1 /\ SameObservations
    /\ LinkedList_get(l, nodes, 0).ret # LinkedList_get(l, nodes, 1).ret

\* ------------------------------------------------- the index arithmetic

\* The buffer add(i, v) allocates has more than i slots and room for
\* max(i, size) + 1 elements, and no write leaves it.
RoomForIndex(i, v) ==
    LET r == ArrayList_addAt(a, bufs, i, v)
    IN /\ r.self.mSize = Max(i, a.mSize) + 1
       /\ r.self.mCapacity = 2 * (Max(i, a.mSize) + 1)
       /\ r.self.mCapacity > i
       /\ Len(r.heap.data[r.self.mArray]) >= Max(i, a.mSize) + 1
       /\ ~r.ub

\* C30: in ArrayList add(index, value), for every index of the unsigned
\* index type, the new buffer has more slots than index and at least
\* max(index, size) + 1 of them, so the write at index and the copies stay
\* inside it: max(index, size) + 1 and twice that do not wrap.
C30_IndexArithmeticFits ==
    [][\A i \in Indices, v \in Values :
        (last'.op = "addAt" /\ AddAtCall(i, v)) => RoomForIndex(i, v)]_vars

\* The same for the indices the run's memory can hold.
IndexArithmeticFitsSmallIndex ==
    [][\A i \in 0..MaxLen, v \in Values :
        (last'.op = "addAt" /\ AddAtCall(i, v)) => RoomForIndex(i, v)]_vars

====
